---- MODULE Spec2Model ----
(***************************************************************************)
(* Rendering-and-delivery core of myach-pro-backend.                       *)
(*                                                                         *)
(*   Delivery Dispatcher  SimpleBotMessagingService   (unnamed/part_005)   *)
(*   Isolated Renderer    generateImageInWorker       (workers/imageWorker)*)
(*   Resource Cache       ImageGenerationService.resourcesCache            *)
(*   URL Cache            StorageService.urlCache                          *)
(*   Render Orchestrator  ImageGenerationService.generateResultsImage      *)
(*                                                                         *)
(* Specifications:                                                         *)
(*   Spec          dispatcher, broker and consumption loop                 *)
(*   SpecPoll      one deliver call with the real poll budget, with the    *)
(*                 fairness of the event loop                              *)
(*   SpecHandle    one deliver call and its task, with the fairness of the *)
(*                 consumption loop                                        *)
(*   SpecValidate  validateImageBuffer over a set of byte sequences        *)
(*   SpecWorker    generateImageInWorker and the events of its worker      *)
(*   SpecResources loadFontAsBase64 / loadImageAsBase64 and their cache    *)
(*   SpecUrl       one StorageService and its URL cache                    *)
(*   SpecRender    generateResultsImage with its worker                    *)
(*   SpecSweep     the sweeps of the two caches next to their lookups      *)
(*   SpecWarm      initializeResources and cleanup                         *)
(*   SpecLoop      one process of the fleet, for every value of pm_id:     *)
(*                 its TelegramBotService, its dispatcher and its loop     *)
(***************************************************************************)
EXTENDS Integers, Sequences, FiniteSets, TLC

VARIABLES
    \* ---- Delivery Dispatcher -------------------------------------------
    call,                  \* the sendImage invocations, by call number
    queue,                 \* the broker list image_send_queue
    results,               \* the broker keys image_result:<task id>
    botAvailable,          \* this.botService?.isBotAvailable() in process pm_id '0'
    isProcessingTasks,     \* SimpleBotMessagingService.isProcessingTasks (pm_id '0')
    taskProcessorInterval, \* TRUE iff taskProcessorInterval holds a timer (pm_id '0')
    lpopReplies,           \* lpop replies on their way to processImageTasks
    handler,               \* the handleImageTask invocations, by task id
    pollLimit,             \* the loop limit of the poll loop in sendImage
    pushed,                \* history: task ids in the order the broker stored them
    popped,                \* history: task ids in the order the broker popped them
    sent,                  \* history: task ids in the order botService.sendImage was invoked
    reads,                 \* history: per task id, how many get calls returned a result
    \* ---- validateImageBuffer on its own --------------------------------
    vbuf,                  \* the value handed to validateImageBuffer
    vres,                  \* its return value, "none" before the call
    \* ---- Isolated Renderer ---------------------------------------------
    render,                \* the generateImageInWorker invocations, by call number
    \* ---- Resource Cache ------------------------------------------------
    now,                   \* Date.now(), in milliseconds since the process started
    resourcesCache,        \* ImageGenerationService.resourcesCache
    load,                  \* the loadFontAsBase64 / loadImageAsBase64 invocations
    warm,                  \* the initializeResources invocations
    cleaned,               \* history: cleanup() has been called
    \* ---- URL Cache -----------------------------------------------------
    urlCache,              \* StorageService.urlCache
    deleting,              \* the deleteFile invocation in progress
    resolved,              \* history: the getOptimizedUrl invocations, in order
    \* ---- Render Orchestrator -------------------------------------------
    request,               \* the ShareImageData the generateResultsImage calls are given
    db,                    \* the ids of the club and player rows of the database
    gen,                   \* the generateResultsImage invocations, by call number
    \* ---- One process of the fleet and its consumption loop -------------
    pm_id,                 \* process.env.pm_id, "unset" for undefined
    tbot,                  \* the TelegramBotService of the process
    sbm,                   \* the SimpleBotMessagingService of the process
    list,                  \* the broker list image_send_queue
    wire,                  \* the lpop commands of the process under way
    trace                  \* history of the process

dispVars == <<call, queue, results, botAvailable, isProcessingTasks,
              taskProcessorInterval, lpopReplies, handler, pollLimit,
              pushed, popped, sent, reads>>
valVars  == <<vbuf, vres>>
wrkVars  == <<render>>
resVars  == <<now, resourcesCache, load, warm, cleaned>>
urlVars  == <<urlCache, deleting, resolved>>
genVars  == <<request, db, gen>>
procVars == <<pm_id, tbot, sbm, list, wire, trace>>
newVars  == <<resVars, urlVars, genVars, procVars>>
vars     == <<dispVars, valVars, wrkVars, newVars>>

(***************************************************************************)
(* Bounds of the model                                                     *)
(***************************************************************************)
NCalls      == 2     \* concurrent sendImage invocations
ModelPolls  == 2     \* poll budget used where calls interleave (Spec)
NRenders    == 2     \* concurrent generateImageInWorker invocations

(***************************************************************************)
(* Program constants                                                       *)
(***************************************************************************)
PollLimit   == 450                 \* for (let i = 0; i < 450; i++)
ResultTTL   == 60                  \* setex(..., 60, ...)
MinBytes    == 1024                \* buffer.length < 1024
MaxSizeMB   == 20                  \* sizeMB > 20
BytesPerMB  == 1024 * 1024         \* buffer.length / (1024 * 1024)

Calls   == 1..NCalls
Renders == 1..NRenders

(***************************************************************************)
(* Byte sequences.  A Buffer is represented by its length and its first    *)
(* min(length, 3) bytes, which is all that validateImageBuffer and the     *)
(* dispatcher look at.  kind distinguishes null/undefined and values that  *)
(* are not a Buffer.                                                       *)
(***************************************************************************)
Min(a, b) == IF a < b THEN a ELSE b

Buf(n, h) == [kind |-> "buffer", len |-> n, hdr |-> SubSeq(h, 1, Min(n, 3))]
NullBuf   == [kind |-> "null",   len |-> 0, hdr |-> <<>>]
NotABuf   == [kind |-> "other",  len |-> 0, hdr |-> <<>>]

HdrAt(b, k) == IF k <= Len(b.hdr) THEN b.hdr[k] ELSE -1     \* -1: undefined

\* validateImageBuffer, unnamed/part_005 255-347.  As mutants: every value
\* is accepted; the size in MB is truncated to an integer before the
\* comparison.
validateImageBufferAny(buffer) == TRUE

validateImageBufferTrunc(buffer) ==
    IF buffer.kind = "null" THEN FALSE
    ELSE IF buffer.kind # "buffer" THEN FALSE
    ELSE IF buffer.len = 0 THEN FALSE
    ELSE IF buffer.len < MinBytes THEN FALSE
    ELSE IF buffer.len \div BytesPerMB > MaxSizeMB THEN FALSE
    ELSE HdrAt(buffer, 1) = 255 /\ HdrAt(buffer, 2) = 216 /\ HdrAt(buffer, 3) = 255

validateImageBuffer(buffer) ==
    IF buffer.kind = "null" THEN FALSE                       \* !buffer
    ELSE IF buffer.kind # "buffer" THEN FALSE                \* !Buffer.isBuffer
    ELSE IF buffer.len = 0 THEN FALSE
    ELSE IF buffer.len < MinBytes THEN FALSE
    \* sizeMB = length / 2^20 is exact, so sizeMB > 20 iff length > 20 * 2^20
    ELSE IF buffer.len > MaxSizeMB * BytesPerMB THEN FALSE
    ELSE HdrAt(buffer, 1) = 255 /\ HdrAt(buffer, 2) = 216 /\ HdrAt(buffer, 3) = 255

(***************************************************************************)
(* SpecValidate: validateImageBuffer applied to byte sequences around      *)
(* every threshold.                                                        *)
(***************************************************************************)
MB == BytesPerMB
VLens  == {0, 1, 2, 3, 500, 1023, 1024, 1025, 2 * MB, 20 * MB - 1, 20 * MB,
           20 * MB + 1, 21 * MB - 1, 25 * MB}
VBytes == {0, 216, 254, 255}
VHdrs  == {<<a, b, c>> : a \in VBytes, b \in VBytes, c \in VBytes}
VInputs == {Buf(n, h) : n \in VLens, h \in VHdrs} \cup {NullBuf, NotABuf}

InitValidate == vbuf \in VInputs /\ vres = "none"

Validate ==
    /\ vres = "none"
    /\ vres' = IF validateImageBuffer(vbuf) THEN "true" ELSE "false"
    /\ UNCHANGED <<vbuf, dispVars, wrkVars, newVars>>

NextInput ==
    /\ vres # "none"
    /\ vbuf' \in VInputs
    /\ vres' = "none"
    /\ UNCHANGED <<dispVars, wrkVars, newVars>>

(***************************************************************************)
(* base64.  Buffer.toString('base64') yields 4 characters for every group  *)
(* of 3 bytes, the last group padded with '='; Buffer.from(s, 'base64')    *)
(* inverts it.  The encoded string is represented by its length, its       *)
(* number of padding characters and the four 6-bit digits of its first     *)
(* group.                                                                  *)
(***************************************************************************)
ByteAt(b, k) == IF k <= Len(b.hdr) THEN b.hdr[k] ELSE 0

toBase64(b) ==
    [chars |-> 4 * ((b.len + 2) \div 3),
     pad   |-> (3 - (b.len % 3)) % 3,
     head  |-> IF b.len = 0 THEN <<>>
               ELSE << ByteAt(b, 1) \div 4,
                       (ByteAt(b, 1) % 4) * 16 + ByteAt(b, 2) \div 16,
                       (ByteAt(b, 2) % 16) * 4 + ByteAt(b, 3) \div 64,
                       ByteAt(b, 3) % 64 >>]

fromBase64(s) ==
    IF s.chars = 0 THEN Buf(0, <<>>)
    ELSE Buf((s.chars \div 4) * 3 - s.pad,
             << s.head[1] * 4 + s.head[2] \div 16,
                (s.head[2] % 16) * 16 + s.head[3] \div 4,
                (s.head[3] % 4) * 64 + s.head[4] >>)

(***************************************************************************)
(* Delivery Dispatcher: values                                             *)
(***************************************************************************)
PmIds    == {"0", "1"}           \* process.env.pm_id of the calling process
JpegHdr  == <<255, 216, 255>>
DBuffers == {Buf(2 * MB, JpegHdr), Buf(500, JpegHdr)}

\* botService.sendImage resolves true or false, or rejects with an error
\* whose message is non-empty ("throw") or empty ("throwEmpty")
SendOutcomes == {"true", "false", "throw", "throwEmpty"}

ErrUnavailable == "Bot service unavailable"      \* line 92
ErrInvalid     == "Buffer invalid after base64"  \* line 109
ErrThrown      == "error.message"                \* line 132, a non-empty message

NoResult == [present |-> FALSE, success |-> FALSE, error |-> "", ttl |-> 0]

\* pc: idle, direct (awaiting botService.sendImage), rpush, poll, del
\* (awaiting the broker), done.  i counts the polls that found nothing.
\* History: ver, the version of sendImage that runs the call; chan, what
\* isMasterProcess && isBotAvailable() gave at 181; why, the return
\* statement taken: rejected (175), direct (189, 197), result (230),
\* timeout (240), error (248); out, how the botService.sendImage of the
\* direct path settled; left, whether the task was still in the list when
\* the call returned by timeout.
IdleCall == [pc |-> "idle", pm |-> "0", ver |-> "cur", buf |-> Buf(0, <<>>),
             chan |-> FALSE, i |-> 0, parsed |-> FALSE, ret |-> "none",
             why |-> "none", out |-> "none", left |-> FALSE]
\* pc: none, send (awaiting botService.sendImage), setex (awaiting the
\* write of the finally block), done (result stored), unsaved (the write
\* failed and was logged).  how: history, the way the try block ended.
NoHandler == [pc |-> "none", success |-> FALSE, errorMessage |-> "", how |-> "none"]

Task(c) == [id |-> c, imageBuffer |-> toBase64(call[c].buf)]

InitDispatcher ==
    /\ call = [c \in Calls |-> IdleCall]
    /\ queue = <<>>
    /\ results = [c \in Calls |-> NoResult]
    /\ botAvailable = FALSE               \* botService = null
    /\ isProcessingTasks = TRUE           \* constructor -> startTaskProcessor
    /\ taskProcessorInterval = TRUE
    /\ lpopReplies = <<>>
    /\ handler = [c \in Calls |-> NoHandler]
    /\ pushed = <<>>
    /\ popped = <<>>
    /\ sent = <<>>
    /\ reads = [c \in Calls |-> 0]

(***************************************************************************)
(* sendImage (deliver), unnamed/part_005 164-250                           *)
(***************************************************************************)
\* return v from sendImage by the return statement w; the locals end with
\* the call, and i is kept only to tell how many polls a timeout took
Return(c, v, w) == [call EXCEPT ![c].pc = "done", ![c].ret = v, ![c].why = w,
                                ![c].parsed = FALSE, ![c].i = 0]

\* the catch block of sendImage (241-249).  As a mutant: the error escapes.
CatchRethrow(c) == Return(c, "threw", "error")

Catch(c) == Return(c, "false", "error")

\* Calls are numbered in the order they are made.
Earlier(c) == \A d \in Calls : d < c => call[d].pc # "idle"

\* Lines 178-215 up to the first await: the choice of the path and, on the
\* queue path, the rpush command being issued.
Dispatch(c, pm, b) ==
    LET isMasterProcess == pm = "0"
        chan == isMasterProcess /\ botAvailable
        entered == [call EXCEPT ![c].pm = pm, ![c].buf = b, ![c].chan = chan]
    IN  IF chan THEN [entered EXCEPT ![c].pc = "direct"]
        ELSE [entered EXCEPT ![c].pc = "rpush"]

\* Lines 164-215 up to the first await: validation first.
SendImage(c) ==
    /\ call[c].pc = "idle" /\ Earlier(c)
    /\ \E pm \in PmIds, b \in DBuffers :
         call' = IF ~validateImageBuffer(b)
                   THEN [call EXCEPT ![c].pm = pm, ![c].buf = b,
                                     ![c].pc = "done", ![c].ret = "false",
                                     ![c].why = "rejected"]
                 ELSE Dispatch(c, pm, b)
    /\ UNCHANGED <<queue, results, botAvailable, isProcessingTasks,
                   taskProcessorInterval, lpopReplies, handler, pollLimit,
                   pushed, popped, sent, reads,
                   valVars, wrkVars, newVars>>

\* sendImage of a process that still runs the earlier version of the
\* service (services/simpleBotMessaging.service.ts 149-191): the same
\* dispatch with no validation before it.  With a buffer that passes the
\* validation the two versions do the same, so only the others are drawn.
SendImageUnvalidated(c) ==
    /\ call[c].pc = "idle" /\ Earlier(c)
    /\ \E pm \in PmIds, b \in DBuffers :
         /\ ~validateImageBuffer(b)
         /\ call' = [Dispatch(c, pm, b) EXCEPT ![c].ver = "old"]
    /\ UNCHANGED <<queue, results, botAvailable, isProcessingTasks,
                   taskProcessorInterval, lpopReplies, handler, pollLimit,
                   pushed, popped, sent, reads,
                   valVars, wrkVars, newVars>>

\* return await botService.sendImage(...) of 183-189, and the catch of
\* 190-198.  As a mutant: the call reports a send that was made as a
\* success.
DirectResultAlways(outcome) == "true"

DirectResult(outcome) == IF outcome = "true" THEN "true" ELSE "false"

\* Lines 181-199: botService.sendImage settles on the direct path.
DirectSend(c) ==
    /\ call[c].pc = "direct"
    /\ \E outcome \in SendOutcomes :
         call' = [Return(c, DirectResult(outcome), "direct")
                    EXCEPT ![c].out = outcome]
    /\ UNCHANGED <<queue, results, botAvailable, isProcessingTasks,
                   taskProcessorInterval, lpopReplies, handler, pollLimit,
                   pushed, popped, sent, reads,
                   valVars, wrkVars, newVars>>

\* Lines 213-215: the broker executes rpush, or the command fails.
Rpush(c) ==
    /\ call[c].pc = "rpush"
    /\ \E ok \in BOOLEAN :
         IF ok
           THEN /\ queue' = Append(queue, Task(c))
                /\ pushed' = Append(pushed, c)
                /\ call' = [call EXCEPT ![c].pc = "poll", ![c].i = 0]
           ELSE /\ call' = Catch(c)
                /\ UNCHANGED <<queue, pushed>>
    /\ UNCHANGED <<results, botAvailable, isProcessingTasks,
                   taskProcessorInterval, lpopReplies, handler, pollLimit,
                   popped, sent, reads,
                   valVars, wrkVars, newVars>>

InQueue(q, c) == \E j \in 1..Len(q) : q[j].id = c

\* What lines 235-240 do to image_send_queue when the loop runs out: they
\* log and return, and issue no command.  As a mutant: the task of the call
\* is taken out of the list.
TimedOutCancels(q, c) == SelectSeq(q, LAMBDA t : t.id # c)

TimedOut(q, c) == q

\* Lines 218-233: one iteration of the poll loop: get, then either the
\* result is parsed and del is issued, or the call sleeps 100 ms and i++.
Poll(c) ==
    /\ call[c].pc = "poll"
    /\ \E ok \in BOOLEAN :
         IF ~ok
           THEN /\ call' = Catch(c)
                /\ UNCHANGED <<reads, queue>>
         ELSE IF results[c].present
           THEN /\ call' = [call EXCEPT ![c].pc = "del",
                                        ![c].parsed = results[c].success]
                /\ reads' = [reads EXCEPT ![c] = @ + 1]
                /\ UNCHANGED queue
         ELSE IF call[c].i + 1 < pollLimit
           THEN /\ call' = [call EXCEPT ![c].i = @ + 1]
                /\ UNCHANGED <<reads, queue>>
         ELSE /\ call' = [Return(c, "false", "timeout")      \* 235-240
                            EXCEPT ![c].i = call[c].i + 1,
                                   ![c].left = InQueue(queue, c)]
              /\ queue' = TimedOut(queue, c)
              /\ UNCHANGED reads
    /\ UNCHANGED <<results, botAvailable, isProcessingTasks,
                   taskProcessorInterval, lpopReplies, handler, pollLimit,
                   pushed, popped, sent,
                   valVars, wrkVars, newVars>>

\* del of the result slot.  As a mutant: the slot is left in place.
DelSlotKept(res, c) == res

DelSlot(res, c) == [res EXCEPT ![c] = NoResult]

\* Lines 224-230: the broker executes del, then parsed.success === true is
\* returned; a failing del goes to the catch block.
Del(c) ==
    /\ call[c].pc = "del"
    /\ \E ok \in BOOLEAN :
         IF ok
           THEN /\ results' = DelSlot(results, c)
                /\ call' = Return(c, IF call[c].parsed THEN "true" ELSE "false", "result")
           ELSE /\ call' = Catch(c)
                /\ UNCHANGED results
    /\ UNCHANGED <<queue, botAvailable, isProcessingTasks,
                   taskProcessorInterval, lpopReplies, handler, pollLimit,
                   pushed, popped, sent, reads,
                   valVars, wrkVars, newVars>>

(***************************************************************************)
(* The consumption loop of the process with pm_id '0',                     *)
(* unnamed/part_005 43-159                                                 *)
(***************************************************************************)
\* lpop: the entry taken and the rest of the list.  As mutants: the entry
\* is read and left in the list; rpop.
LpopPeek(q) == <<Head(q), q>>

Rpop(q) == <<q[Len(q)], SubSeq(q, 1, Len(q) - 1)>>

Lpop(q) == <<Head(q), Tail(q)>>

\* Lines 50-54 and 61-68: a timer tick calls processImageTasks, which issues
\* lpop; the broker executes it.  The callback is async and setInterval does
\* not wait for it, so a tick depends on nothing but the flag and the timer.
\* A tick that finds the list empty, or whose lpop fails (caught at 74),
\* changes nothing and is left to stuttering.
Tick ==
    /\ taskProcessorInterval
    /\ isProcessingTasks
    /\ queue # <<>>
    /\ lpopReplies' = Append(lpopReplies, Lpop(queue)[1])
    /\ queue' = Lpop(queue)[2]
    /\ popped' = Append(popped, Lpop(queue)[1].id)
    /\ UNCHANGED <<call, results, botAvailable, isProcessingTasks,
                   taskProcessorInterval, handler, pollLimit,
                   pushed, sent, reads,
                   valVars, wrkVars, newVars>>

\* handleImageTask up to its first await (86-128): the state of the
\* invocation once it suspends on botService.sendImage ("send") or on the
\* setex of the finally block ("setex").  Buffer.from(s, 'base64') does not
\* throw on a string, so the catch of 101 is never entered.
\* As mutants: the handler without the validation of 108 (the handler of
\* services/simpleBotMessaging.service.ts 86-113), and a handler whose early
\* return on an unavailable channel leaves without writing a result.
HandleImageTaskNoValidation(task, avail) ==
    LET imageBuffer == fromBase64(task.imageBuffer)
    IN  IF ~avail
          THEN [NoHandler EXCEPT !.pc = "setex", !.errorMessage = ErrUnavailable,
                                 !.how = "unavailable"]
        ELSE [NoHandler EXCEPT !.pc = "send"]

HandleImageTaskNoFinally(task, avail) ==
    LET imageBuffer == fromBase64(task.imageBuffer)
    IN  IF ~avail
          THEN [NoHandler EXCEPT !.pc = "returned", !.errorMessage = ErrUnavailable,
                                 !.how = "unavailable"]
        ELSE IF ~validateImageBuffer(imageBuffer)
          THEN [NoHandler EXCEPT !.pc = "setex", !.errorMessage = ErrInvalid,
                                 !.how = "invalid"]
        ELSE [NoHandler EXCEPT !.pc = "send"]

HandleImageTask(task, avail) ==
    LET imageBuffer == fromBase64(task.imageBuffer)
    IN  IF ~avail
          THEN [NoHandler EXCEPT !.pc = "setex", !.errorMessage = ErrUnavailable,
                                 !.how = "unavailable"]
        ELSE IF ~validateImageBuffer(imageBuffer)
          THEN [NoHandler EXCEPT !.pc = "setex", !.errorMessage = ErrInvalid,
                                 !.how = "invalid"]
        ELSE [NoHandler EXCEPT !.pc = "send"]

\* Lines 68-72: the lpop reply reaches processImageTasks, which parses the
\* task and runs handleImageTask up to its first await.  Replies arrive in
\* the order of the commands (one connection).
LpopReply ==
    /\ lpopReplies # <<>>
    /\ LET task == Head(lpopReplies)
           h == HandleImageTask(task, botAvailable)
       IN  /\ handler' = [handler EXCEPT ![task.id] = h]
           /\ sent' = IF h.pc = "send" THEN Append(sent, task.id) ELSE sent
    /\ lpopReplies' = Tail(lpopReplies)
    /\ UNCHANGED <<call, queue, results, botAvailable, isProcessingTasks,
                   taskProcessorInterval, pollLimit,
                   pushed, popped, reads,
                   valVars, wrkVars, newVars>>

\* Lines 124-139: botService.sendImage settles; then the finally block
\* issues setex.
SendSettles(t) ==
    /\ handler[t].pc = "send"
    /\ \E outcome \in SendOutcomes :
         handler' = [handler EXCEPT
            ![t].pc = "setex",
            ![t].success = (outcome = "true"),
            ![t].errorMessage = IF outcome = "throw" THEN ErrThrown ELSE "",
            ![t].how = outcome]
    /\ UNCHANGED <<call, queue, results, botAvailable, isProcessingTasks,
                   taskProcessorInterval, lpopReplies, pollLimit,
                   pushed, popped, sent, reads,
                   valVars, wrkVars, newVars>>

\* the value stored by setex (142-150); error "" stands for undefined
ResultOf(h) == [present |-> TRUE, success |-> h.success,
                error |-> h.errorMessage, ttl |-> ResultTTL]

\* Lines 141-157: the broker executes setex, or the command fails and the
\* failure is logged.
Setex(t) ==
    /\ handler[t].pc = "setex"
    /\ \E ok \in BOOLEAN :
         IF ok
           THEN /\ results' = [results EXCEPT ![t] = ResultOf(handler[t])]
                /\ handler' = [handler EXCEPT ![t].pc = "done"]
           ELSE /\ UNCHANGED results
                /\ handler' = [handler EXCEPT ![t].pc = "unsaved"]
    /\ UNCHANGED <<call, queue, botAvailable, isProcessingTasks,
                   taskProcessorInterval, lpopReplies, pollLimit,
                   pushed, popped, sent, reads,
                   valVars, wrkVars, newVars>>

\* the broker drops a result key whose TTL has run out
Expire(t) ==
    /\ results[t].present
    /\ results' = [results EXCEPT ![t] = NoResult]
    /\ UNCHANGED <<call, queue, botAvailable, isProcessingTasks,
                   taskProcessorInterval, lpopReplies, handler, pollLimit,
                   pushed, popped, sent, reads,
                   valVars, wrkVars, newVars>>

\* setBotService (36-38) with a bot service whose bot is initialised.  The
\* bot of a TelegramBotService is never reset, so the channel stays
\* available.
SetBotService ==
    /\ ~botAvailable
    /\ botAvailable' = TRUE
    /\ UNCHANGED <<call, queue, results, isProcessingTasks,
                   taskProcessorInterval, lpopReplies, handler, pollLimit,
                   pushed, popped, sent, reads,
                   valVars, wrkVars, newVars>>

\* stop (352-359)
Stop ==
    /\ isProcessingTasks \/ taskProcessorInterval
    /\ isProcessingTasks' = FALSE
    /\ taskProcessorInterval' = FALSE
    /\ UNCHANGED <<call, queue, results, botAvailable, lpopReplies, handler,
                   pollLimit, pushed, popped, sent, reads,
                   valVars, wrkVars, newVars>>

(***************************************************************************)
(* Isolated Renderer: generateImageInWorker, workers/imageWorker.ts        *)
(* 201-256, and the message handler of the worker thread, 11-195.          *)
(***************************************************************************)
\* Messages the worker posts (180-183, 189-192).  buf tells whether
\* imageBuffer is present; error "" stands for an empty message.
MsgSuccess == [success |-> TRUE,  buf |-> TRUE,  error |-> ""]
MsgFailure == {[success |-> FALSE, buf |-> FALSE, error |-> e] :
                 e \in {"launch failed", "render failed", ""}}

NoRender == [pc      |-> "idle",     \* idle, called
             promise |-> "pending",  \* pending, resolved, rejected
             value   |-> "",         \* "bytes", or the message of the error
             timer   |-> "none",     \* none, armed, cleared, fired
             thread  |-> "none",     \* none, running, stopping, exited
             wpc     |-> "none",     \* worker code: working, posted, finished
             inbox   |-> <<>>,       \* messages posted, not yet received
             first   |-> "none",     \* history: the first event handled
             settled |-> 0]          \* history: state changes of the promise

\* resolve / reject of the promise executor: only the first call settles.
Settle(r, state, v) ==
    IF r.promise = "pending"
      THEN [r EXCEPT !.promise = state, !.value = v, !.settled = @ + 1]
    ELSE r

First(r, ev) == IF r.first = "none" THEN [r EXCEPT !.first = ev] ELSE r

\* clearTimeout(timeout)
ClearTimeout(r) == IF r.timer = "armed" THEN [r EXCEPT !.timer = "cleared"] ELSE r

\* worker.terminate().  As a mutant: the worker is left running.
TerminateSkipped(r) == r

Terminate(r) == IF r.thread = "running" THEN [r EXCEPT !.thread = "stopping"] ELSE r

\* Lines 208-227: the worker is created, the timer armed, the job posted.
GenerateImageInWorker(k) ==
    /\ render[k].pc = "idle"
    /\ render' = [render EXCEPT ![k] = [NoRender EXCEPT !.pc = "called",
                                          !.timer = "armed",
                                          !.thread = "running",
                                          !.wpc = "working"]]
    /\ UNCHANGED <<procVars, dispVars, valVars, newVars>>

\* Worker thread, 20-183: the screenshot is taken and posted.
WorkerPostsSuccess(k) ==
    /\ render[k].thread = "running" /\ render[k].wpc = "working"
    /\ render' = [render EXCEPT ![k].wpc = "posted",
                                ![k].inbox = Append(@, MsgSuccess)]
    /\ UNCHANGED <<procVars, dispVars, valVars, newVars>>

\* Worker thread, 188-193: the catch block posts a failure; it is reached
\* from a failing launch or render, and from a failing page.close or
\* browser.close of the finally block after the success was posted.
WorkerPostsFailure(k) ==
    /\ render[k].thread = "running" /\ render[k].wpc \in {"working", "posted"}
    /\ \E m \in MsgFailure :
         render' = [render EXCEPT ![k].wpc = "finished",
                                  ![k].inbox = Append(@, m)]
    /\ UNCHANGED <<procVars, dispVars, valVars, newVars>>

\* Worker thread: page and browser closed after the success was posted.
WorkerFinishes(k) ==
    /\ render[k].thread = "running" /\ render[k].wpc = "posted"
    /\ render' = [render EXCEPT ![k].wpc = "finished"]
    /\ UNCHANGED <<procVars, dispVars, valVars, newVars>>

\* the body of the 'message' handler, 231-240.  As a mutant: the handler
\* resolves whatever the message says.
MessageResolvesAlways(r, result) ==
    Settle(Terminate(ClearTimeout(r)), "resolved", "bytes")

Message(r, result) ==
    LET r1 == Terminate(ClearTimeout(r))
    IN  IF result.success /\ result.buf
          THEN Settle(r1, "resolved", "bytes")
        ELSE Settle(r1, "rejected",
                    IF result.error # "" THEN result.error ELSE "Worker failed")

\* Lines 229-241: a posted message reaches the main thread.
OnMessage(k) ==
    /\ render[k].thread \in {"running", "stopping"}
    /\ render[k].inbox # <<>>
    /\ LET m  == Head(render[k].inbox)
           r0 == First([render[k] EXCEPT !.inbox = Tail(@)],
                       IF m.success /\ m.buf THEN "success" ELSE "failure")
       IN  render' = [render EXCEPT ![k] = Message(r0, m)]
    /\ UNCHANGED <<procVars, dispVars, valVars, newVars>>

\* Lines 243-247: an uncaught exception in the worker thread.
OnError(k) ==
    /\ render[k].thread = "running"
    /\ render' = [render EXCEPT ![k] =
          Settle([ClearTimeout(First(render[k], "error")) EXCEPT !.thread = "stopping"],
                 "rejected", "worker error")]
    /\ UNCHANGED <<procVars, dispVars, valVars, newVars>>

\* the body of the 'exit' handler, 249-254.  As a mutant: the timer is left
\* armed when the exit code is 0.
ExitKeepsTimer(r, code) ==
    IF code # 0
      THEN Settle(ClearTimeout(r), "rejected", "Worker stopped with exit code")
    ELSE r

Exit(r, code) ==
    LET r1 == ClearTimeout(r)
    IN  IF code # 0
          THEN Settle(r1, "rejected", "Worker stopped with exit code")
        ELSE r1

\* Lines 249-254: the worker thread has stopped.  A thread stopped by
\* terminate() or by an uncaught exception exits with code 1; a thread that
\* ends by itself exits with the code it chose.
OnExit(k) ==
    /\ render[k].thread \in {"running", "stopping"}
    /\ \E code \in IF render[k].thread = "stopping" THEN {1} ELSE {0, 1} :
         render' = [render EXCEPT ![k] =
            Exit([First(render[k], IF code = 0 THEN "exit0" ELSE "exit")
                    EXCEPT !.thread = "exited", !.inbox = <<>>], code)]
    /\ UNCHANGED <<procVars, dispVars, valVars, newVars>>

\* Lines 212-219: the 60 s timer fires.
OnTimeout(k) ==
    /\ render[k].timer = "armed"
    /\ render' = [render EXCEPT ![k] =
          Settle(Terminate([First(render[k], "timeout") EXCEPT !.timer = "fired"]),
                 "rejected", "Worker timeout")]
    /\ UNCHANGED <<procVars, dispVars, valVars, newVars>>

InitWorker == render = [k \in Renders |-> NoRender]

NextWorker ==
    \/ \E k \in Renders : GenerateImageInWorker(k)
    \/ \E k \in Renders : WorkerPostsSuccess(k)
    \/ \E k \in Renders : WorkerPostsFailure(k)
    \/ \E k \in Renders : WorkerFinishes(k)
    \/ \E k \in Renders : OnMessage(k)
    \/ \E k \in Renders : OnError(k)
    \/ \E k \in Renders : OnExit(k)
    \/ \E k \in Renders : OnTimeout(k)

(***************************************************************************)
(* Resource Cache: ImageGenerationService.resourcesCache and its loaders,  *)
(* services/imageGeneration.service.ts 66-246 and 691-709.                 *)
(***************************************************************************)
NLoads      == 2     \* loadFontAsBase64 / loadImageAsBase64 invocations
MaxTicks    == 3     \* steps of the clock
NWarms      == 2     \* concurrent initializeResources invocations

ResourceTTL == 60 * 60 * 1000      \* ttl: 60 * 60 * 1000, // 1 час
ClockStep   == ResourceTTL \div 2  \* the clock moves in half hours

Loads  == 1..NLoads
Warms  == 1..NWarms
Fonts  == {"Montserrat-Regular.ttf", "Montserrat-Bold.ttf"}
Images == {"main_bg.jpg", "main_logo.png"}

\* path.extname(imageFileName).toLowerCase()
extname(name) == IF name = "main_logo.png" THEN ".png"
                 ELSE IF name = "main_bg.jpg" THEN ".jpg"
                 ELSE ".ttf"

\* Lines 221-226.
mimeType(extension) ==
    IF extension = ".png" THEN "image/png"
    ELSE IF extension \in {".jpg", ".jpeg"} THEN "image/jpeg"
    ELSE IF extension = ".gif" THEN "image/gif"
    ELSE IF extension = ".webp" THEN "image/webp"
    ELSE "image/jpeg"

\* The strings the loaders return: the base64 text of a font (168), the
\* data URI of an image (228-230), '' for a file that cannot be read.
NoData        == [mime |-> "", base64 |-> ""]
FontData(n)   == [mime |-> "none", base64 |-> n]
ImageData(n)  == [mime |-> mimeType(extname(n)), base64 |-> n]

NoEntry == [present |-> FALSE, data |-> NoData, timestamp |-> 0]

\* An initializeResources invocation.  pending: the loads of its
\* Promise.all that have not settled.  History: io, the files the call
\* probed; after, whether cleanup() had been called when it was made.
NoWarm == [pc |-> "idle",       \* idle, loading, done
           pending |-> {}, io |-> 0, after |-> FALSE]
NoLoad  == [pc   |-> "idle",    \* idle, access, readFile, done
            fn   |-> "none",    \* font, image
            name |-> "none",
            at   |-> 0,         \* history: Date.now() when the call was made
            probe |-> FALSE,    \* history: the call issued fs.promises.access
            io   |-> FALSE,     \* history: the call issued fs.promises.readFile
            ret  |-> NoData]

InitResources ==
    /\ now = 0
    /\ resourcesCache = [fonts  |-> [n \in Fonts |-> NoEntry],
                         images |-> [n \in Images |-> NoEntry],
                         isInitialized |-> FALSE]
    /\ load = [l \in Loads |-> NoLoad]
    /\ warm = [w \in Warms |-> NoWarm]
    /\ cleaned = FALSE

\* isCacheValid, 91-93.
isCacheValid(timestamp) == now - timestamp < ResourceTTL

Entries(fn) == IF fn = "font" THEN resourcesCache.fonts ELSE resourcesCache.images

\* this.resourcesCache.<fonts|images>.set(name, {data, timestamp: Date.now()})
\* As a mutant: '' is not cached.
CacheSetUnlessEmpty(fn, name, data) ==
    LET e == [present |-> TRUE, data |-> data, timestamp |-> now]
    IN  IF data = NoData THEN resourcesCache
        ELSE IF fn = "font" THEN [resourcesCache EXCEPT !.fonts[name] = e]
        ELSE [resourcesCache EXCEPT !.images[name] = e]

CacheSet(fn, name, data) ==
    LET e == [present |-> TRUE, data |-> data, timestamp |-> now]
    IN  IF fn = "font" THEN [resourcesCache EXCEPT !.fonts[name] = e]
        ELSE [resourcesCache EXCEPT !.images[name] = e]

\* The entry under the name of a load.
EntryOf(r) == IF r.fn = "font" THEN resourcesCache.fonts[r.name]
              ELSE resourcesCache.images[r.name]

\* Lines 139-144 and 194-199: the call, up to the cache lookup.
Lookup(l, fn, name) ==
    /\ load[l].pc = "idle"
    /\ LET cached == Entries(fn)[name]
           r      == [NoLoad EXCEPT !.fn = fn, !.name = name, !.at = now]
       IN  IF cached.present /\ isCacheValid(cached.timestamp)
             THEN load' = [load EXCEPT ![l] = [r EXCEPT !.pc = "done",
                                                        !.ret = cached.data]]
           ELSE load' = [load EXCEPT ![l] = [r EXCEPT !.pc = "access",
                                                      !.probe = TRUE]]
    /\ UNCHANGED <<now, resourcesCache, warm, cleaned>>
    /\ UNCHANGED <<procVars, dispVars, valVars, wrkVars, urlVars, genVars>>

LoadFontAsBase64(l) == \E name \in Fonts : Lookup(l, "font", name)

LoadImageAsBase64(l) == \E name \in Images : Lookup(l, "image", name)

\* Lines 155-167 and 205-217: fs.promises.access settles.  A missing file is
\* cached as ''; otherwise fs.promises.readFile is called.
Access(l) ==
    /\ load[l].pc = "access"
    /\ \E found \in BOOLEAN :
         IF found
           THEN /\ load' = [load EXCEPT ![l].pc = "readFile", ![l].io = TRUE]
                /\ UNCHANGED resourcesCache
         ELSE /\ load' = [load EXCEPT ![l].pc = "done", ![l].ret = NoData]
              /\ resourcesCache' = CacheSet(load[l].fn, load[l].name, NoData)
    /\ UNCHANGED <<now, warm, cleaned>>
    /\ UNCHANGED <<procVars, dispVars, valVars, wrkVars, urlVars, genVars>>

\* Lines 167-187 and 217-245: fs.promises.readFile settles.  The encoded
\* content is cached; a read error is caught and cached as ''.
ReadFile(l) ==
    /\ load[l].pc = "readFile"
    /\ \E read \in BOOLEAN :
         LET data == IF ~read THEN NoData
                     ELSE IF load[l].fn = "font" THEN FontData(load[l].name)
                     ELSE ImageData(load[l].name)
         IN  /\ load' = [load EXCEPT ![l].pc = "done", ![l].ret = data]
             /\ resourcesCache' = CacheSet(load[l].fn, load[l].name, data)
    /\ UNCHANGED <<now, warm, cleaned>>
    /\ UNCHANGED <<procVars, dispVars, valVars, wrkVars, urlVars, genVars>>

\* cleanExpiredCache, 691-709.
CleanExpiredCache ==
    /\ \E fn \in {"font", "image"}, n \in Fonts \cup Images :
         /\ n \in DOMAIN Entries(fn)
         /\ Entries(fn)[n].present /\ ~isCacheValid(Entries(fn)[n].timestamp)
    /\ resourcesCache' =
         [resourcesCache EXCEPT
            !.fonts  = [n \in Fonts |->
                          IF @[n].present /\ ~isCacheValid(@[n].timestamp)
                            THEN NoEntry ELSE @[n]],
            !.images = [n \in Images |->
                          IF @[n].present /\ ~isCacheValid(@[n].timestamp)
                            THEN NoEntry ELSE @[n]]]
    /\ UNCHANGED <<now, load, warm, cleaned>>
    /\ UNCHANGED <<procVars, dispVars, valVars, wrkVars, urlVars, genVars>>

\* Date.now() moves on.
AdvanceClock ==
    /\ now < MaxTicks * ClockStep
    /\ now' = now + ClockStep
    /\ UNCHANGED <<resourcesCache, load, warm, cleaned>>
    /\ UNCHANGED <<procVars, dispVars, valVars, wrkVars, urlVars, genVars>>

NextResources ==
    \/ \E l \in Loads : LoadFontAsBase64(l)
    \/ \E l \in Loads : LoadImageAsBase64(l)
    \/ \E l \in Loads : Access(l)
    \/ \E l \in Loads : ReadFile(l)
    \/ CleanExpiredCache
    \/ AdvanceClock

(***************************************************************************)
(* Resource Cache: initializeResources (98-133) and cleanup (714-719).     *)
(* The four loads of a warm-up are the loaders above; each is followed     *)
(* from its cache lookup to the store of its result in one step.           *)
(***************************************************************************)
\* The files of lines 106-113.
Assets == {[fn |-> "font", name |-> n] : n \in Fonts}
          \cup {[fn |-> "image", name |-> n] : n \in Images}

Cached(a) == LET e == EntryOf(a) IN e.present /\ isCacheValid(e.timestamp)

\* Lines 98-117: the call returns at once if the flag is set; otherwise the
\* four loaders are called, and those that miss the cache probe their file.
InitializeResources(w) ==
    /\ warm[w].pc \in {"idle", "done"}
    /\ LET missing == {a \in Assets : ~Cached(a)}
       IN  warm' = [warm EXCEPT ![w] =
              IF resourcesCache.isInitialized
                THEN [pc |-> "done", pending |-> {}, io |-> 0, after |-> cleaned]
              ELSE [pc |-> "loading", pending |-> missing,
                    io |-> Cardinality(missing), after |-> cleaned]]
    /\ UNCHANGED <<now, resourcesCache, load, cleaned>>
    /\ UNCHANGED <<procVars, dispVars, valVars, wrkVars, urlVars, genVars>>

\* One of the loads of the warm-up settles: the content, or '' for a file
\* that is missing or cannot be read, is stored.
WarmLoadSettles(w) ==
    /\ warm[w].pc = "loading"
    /\ \E a \in warm[w].pending, read \in BOOLEAN :
         /\ resourcesCache' = CacheSet(a.fn, a.name,
               IF ~read THEN NoData
               ELSE IF a.fn = "font" THEN FontData(a.name)
               ELSE ImageData(a.name))
         /\ warm' = [warm EXCEPT ![w].pending = @ \ {a}]
    /\ UNCHANGED <<now, load, cleaned>>
    /\ UNCHANGED <<procVars, dispVars, valVars, wrkVars, urlVars, genVars>>

\* Lines 117-119: Promise.all has resolved (the loaders do not throw, so
\* the catch of 124-132 is not entered); the flag is set.
WarmCompletes(w) ==
    /\ warm[w].pc = "loading" /\ warm[w].pending = {}
    /\ resourcesCache' = [resourcesCache EXCEPT !.isInitialized = TRUE]
    /\ warm' = [warm EXCEPT ![w].pc = "done"]
    /\ UNCHANGED <<now, load, cleaned>>
    /\ UNCHANGED <<procVars, dispVars, valVars, wrkVars, urlVars, genVars>>

\* cleanup, 714-719.  As a mutant: the maps are cleared and the flag is
\* left as it is.
cleanupMapsOnly(rc) ==
    [rc EXCEPT !.fonts = [n \in Fonts |-> NoEntry],
               !.images = [n \in Images |-> NoEntry]]

cleanup(rc) ==
    [rc EXCEPT !.fonts = [n \in Fonts |-> NoEntry],
               !.images = [n \in Images |-> NoEntry],
               !.isInitialized = FALSE]

Cleanup ==
    /\ resourcesCache' = cleanup(resourcesCache)
    /\ cleaned' = TRUE
    /\ UNCHANGED <<now, load, warm>>
    /\ UNCHANGED <<procVars, dispVars, valVars, wrkVars, urlVars, genVars>>

NextWarm ==
    \/ \E w \in Warms : InitializeResources(w)
    \/ \E w \in Warms : WarmLoadSettles(w)
    \/ \E w \in Warms : WarmCompletes(w)
    \/ Cleanup

(***************************************************************************)
(* URL Cache: StorageService.urlCache, services/storage.service.ts.        *)
(* Every `new StorageService()` holds a cache of its own (24); the model   *)
(* follows the cache of one instance.  Strings are sequences of            *)
(* characters.                                                             *)
(***************************************************************************)
NResolves == 2     \* getOptimizedUrl invocations kept in the history

UrlTTL  == 23 * 60 * 60 * 1000     \* expiresAt: Date.now() + 23 * 60 * 60 * 1000
UrlStep == UrlTTL \div 2           \* the clock moves in steps of 11.5 hours

\* Storage keys: '' and two keys of which one is a prefix of the other.
FileKeys == {<<>>, <<"a">>, <<"a", "b">>}

\* Transform options, as the object literal lists its properties.
Options == {<<>>, <<"width:64", "height:64">>, <<"height:64", "width:64">>}

\* JSON.stringify(options): the properties in insertion order.
JSONstringify(options) == <<"{">> \o options \o <<"}">>

\* `${fileKey}_${JSON.stringify(options)}`, line 89.
CacheKey(fileKey, options) == fileKey \o <<"_">> \o JSONstringify(options)

\* String.prototype.startsWith
startsWith(str, prefix) ==
    /\ Len(prefix) <= Len(str)
    /\ \A j \in 1..Len(prefix) : str[j] = prefix[j]

\* options.<field>, undefined as "".
Option(options, field) ==
    IF \E j \in 1..Len(options) : options[j] = field
      THEN field ELSE ""

\* Lines 99-107: the URL of the public domain, the transform parameters in
\* the order w, h (f and q likewise; no option of the model sets them).
PublicUrl(fileKey, options) ==
    [path  |-> fileKey,
     query |-> (IF Option(options, "width:64") # "" THEN <<"w=64">> ELSE <<>>)
               \o (IF Option(options, "height:64") # "" THEN <<"h=64">> ELSE <<>>)]

EmptyUrl == [path |-> <<>>, query |-> <<>>]

\* The deleteFile invocation in progress (pc send) or the last one that
\* returned (pc none, with its key and how it ended: cleared, failed).
NoDelete == [pc |-> "none", fileKey |-> <<>>, ended |-> "none"]

InitUrl ==
    /\ urlCache = <<>>
    /\ deleting = NoDelete
    /\ resolved = <<>>

\* this.urlCache.set(cacheKey, {url, expiresAt}), 110-113.  As a mutant: the
\* URL is returned without being cached.
CacheUrlSkipped(cache, cacheKey, url) == cache

CacheUrl(cache, cacheKey, url) ==
    [k \in DOMAIN cache \cup {cacheKey} |->
        IF k = cacheKey THEN [url |-> url, expiresAt |-> now + UrlTTL]
        ELSE cache[k]]

\* getOptimizedUrl, 77-139, on the state st = [cache, log].  publicDomain
\* is never empty (28-29), so the URL is composed in the same turn of the
\* event loop as the cache lookup.  The log entry is history: stale is set
\* when deleteFile later removes the entry the call used or made.
getOptimizedUrl(st, fileKey, options) ==
    LET cacheKey == CacheKey(fileKey, options)
        call0    == [fileKey |-> fileKey, options |-> options, at |-> now,
                     url |-> EmptyUrl, computed |-> FALSE, stale |-> FALSE]
    IN  IF fileKey = <<>>
          THEN [st EXCEPT !.log = Append(@, call0)]
        ELSE IF cacheKey \in DOMAIN st.cache /\ st.cache[cacheKey].expiresAt > now
          THEN [st EXCEPT !.log = Append(@, [call0 EXCEPT
                                      !.url = st.cache[cacheKey].url])]
        ELSE LET url == PublicUrl(fileKey, options)
             IN  [cache |-> CacheUrl(st.cache, cacheKey, url),
                  log   |-> Append(st.log, [call0 EXCEPT !.url = url,
                                                         !.computed = TRUE])]

GetOptimizedUrl ==
    /\ Len(resolved) < NResolves
    /\ \E fileKey \in FileKeys, options \in Options :
         LET st == getOptimizedUrl([cache |-> urlCache, log |-> resolved],
                                   fileKey, options)
         IN  /\ urlCache' = st.cache
             /\ resolved' = st.log
    /\ UNCHANGED deleting
    /\ UNCHANGED <<procVars, dispVars, valVars, wrkVars, resVars, genVars>>

\* getBatchUrls, 144-162: the callbacks of fileKeys.map run in order, each
\* to the end of its getOptimizedUrl call.
RECURSIVE getBatchUrls(_, _, _)
getBatchUrls(st, fileKeys, options) ==
    IF fileKeys = <<>> THEN st
    ELSE getBatchUrls(getOptimizedUrl(st, Head(fileKeys), options),
                      Tail(fileKeys), options)

\* The record getBatchUrls returns, result[fileKey] = url (157), from the
\* calls log[from + 1 .. from + n] it made.
BatchResult(log, from, n) ==
    [k \in {log[j].fileKey : j \in (from + 1)..(from + n)} |->
        LET j == CHOOSE i \in (from + 1)..(from + n) :
                   /\ log[i].fileKey = k
                   /\ \A i2 \in (from + 1)..(from + n) : log[i2].fileKey = k => i2 <= i
        IN  log[j].url]

BatchInputs == {<<k1, k2>> : k1 \in FileKeys, k2 \in FileKeys}

GetBatchUrls ==
    \E fileKeys \in BatchInputs, options \in Options :
       /\ Len(resolved) + Len(fileKeys) <= NResolves
       /\ LET st == getBatchUrls([cache |-> urlCache, log |-> resolved],
                                 fileKeys, options)
          IN  /\ urlCache' = st.cache
              /\ resolved' = st.log
       /\ UNCHANGED deleting
       /\ UNCHANGED <<procVars, dispVars, valVars, wrkVars, resVars, genVars>>

\* deleteFile, 206-213: the DeleteObjectCommand is sent.
DeleteFile ==
    /\ deleting.pc = "none"
    /\ \E fileKey \in FileKeys \ {<<>>} :
         deleting' = [pc |-> "send", fileKey |-> fileKey, ended |-> "none"]
    /\ UNCHANGED <<urlCache, resolved>>
    /\ UNCHANGED <<procVars, dispVars, valVars, wrkVars, resVars, genVars>>

\* The loop of 216-220.  As a mutant: only the entry of the default options
\* is removed.
InvalidateDefault(cache, fileKey) ==
    [k \in {k \in DOMAIN cache : k # CacheKey(fileKey, <<>>)} |-> cache[k]]

Invalidate(cache, fileKey) ==
    [k \in {k \in DOMAIN cache : ~startsWith(k, fileKey)} |-> cache[k]]

\* deleteFile, 213-224: the storage has answered.  On success the entries of
\* the key are removed; a failure is rethrown and the cache is left as it is.
DeleteFileSettles ==
    /\ deleting.pc = "send"
    /\ \E deleted \in BOOLEAN :
         IF deleted
           THEN /\ urlCache' = Invalidate(urlCache, deleting.fileKey)
                /\ resolved' = [j \in 1..Len(resolved) |->
                     IF startsWith(CacheKey(resolved[j].fileKey, resolved[j].options),
                                   deleting.fileKey)
                       THEN [resolved[j] EXCEPT !.stale = TRUE]
                     ELSE resolved[j]]
                /\ deleting' = [deleting EXCEPT !.pc = "none", !.ended = "cleared"]
         ELSE /\ UNCHANGED <<urlCache, resolved>>
              /\ deleting' = [deleting EXCEPT !.pc = "none", !.ended = "failed"]
    /\ UNCHANGED <<procVars, dispVars, valVars, wrkVars, resVars, genVars>>

\* cleanExpiredCache, 230-237, run by the timer of line 41.  As a mutant:
\* an entry is removed once expiresAt is before now.
CleanExpiredUrlsBefore ==
    /\ \E k \in DOMAIN urlCache : urlCache[k].expiresAt < now
    /\ urlCache' = [k \in {k \in DOMAIN urlCache : urlCache[k].expiresAt >= now}
                      |-> urlCache[k]]
    /\ UNCHANGED <<deleting, resolved>>
    /\ UNCHANGED <<procVars, dispVars, valVars, wrkVars, resVars, genVars>>

CleanExpiredUrls ==
    /\ \E k \in DOMAIN urlCache : urlCache[k].expiresAt <= now
    /\ urlCache' = [k \in {k \in DOMAIN urlCache : urlCache[k].expiresAt > now}
                      |-> urlCache[k]]
    /\ UNCHANGED <<deleting, resolved>>
    /\ UNCHANGED <<procVars, dispVars, valVars, wrkVars, resVars, genVars>>

\* Date.now() moves on.
AdvanceUrlClock ==
    /\ now < MaxTicks * UrlStep
    /\ now' = now + UrlStep
    /\ UNCHANGED <<resourcesCache, load, warm, cleaned>>
    /\ UNCHANGED <<procVars, dispVars, valVars, wrkVars, urlVars, genVars>>

NextUrl ==
    \/ GetOptimizedUrl
    \/ GetBatchUrls
    \/ DeleteFile
    \/ DeleteFileSettles
    \/ CleanExpiredUrls
    \/ AdvanceUrlClock

(***************************************************************************)
(* Render Orchestrator: ImageGenerationService.generateResultsImage,       *)
(* services/imageGeneration.service.ts 282-429 and 632-686.  The call of   *)
(* number g renders in the worker render[g].  StorageService.              *)
(* getBatchFastUrls is not part of the sources at hand; it is modelled     *)
(* from the specification of the URL Cache (4.2).                          *)
(***************************************************************************)
NGens == 1     \* concurrent generateResultsImage invocations

Gens == 1..NGens

\* The rows of the database: one club, without a logo, a player with an
\* avatar and a player without.  "px" is the id of no player.
ClubRows   == [c1 |-> [name |-> "Club", logo |-> ""]]
PlayerRows == [p1 |-> [name |-> "Ann", avatar |-> "avatars/p1"],
               p2 |-> [name |-> "Bob", avatar |-> ""]]

ClubIds     == {"c1", "missing"}
CategorySeq == {<<"GOAT">>, <<"GOAT", "MID">>, <<"MID", "GOAT">>}
GoatIds     == {<<"p1", "p2">>, <<"p2", "px", "p1">>}
MidIds      == {<<>>, <<"px">>}

\* ShareImageData, 10-14.
Requests ==
    {[clubId |-> "c1", categories |-> cs,
      categorizedPlayerIds |-> [GOAT |-> g, MID |-> m]] :
        cs \in CategorySeq, g \in GoatIds, m \in MidIds}
    \cup {[clubId |-> "missing", categories |-> <<"GOAT">>,
            categorizedPlayerIds |-> [GOAT |-> <<"p1", "p2">>, MID |-> <<>>]]}

\* new Error('Клуб не найден'), line 294.
ErrNotFound == "club not found"

NoGen == [pc      |-> "idle",  \* idle, club, players, urls, resources, html,
                               \* worker, done, failed
          pass    |-> 0,       \* 1: getClubAndPlayersData called by
                               \* generateResultsImage, 2: by generateHTML
          club    |-> "none",              \* the club row found
          players |-> {},                  \* the player rows found
          logoUrls   |-> <<>>,             \* what getBatchFastUrls returned
          avatarUrls |-> <<>>,
          html    |-> <<>>,                \* playersHTML, a sequence of sections
          logo    |-> "",                  \* the src of the club logo, '' if none
          ret     |-> "none",              \* none, bytes
          error   |-> "",                  \* the message of the error thrown
          missed  |-> FALSE,   \* history: the first findUnique found no club
          lookups |-> 0,       \* history: prisma.players.findMany calls
          batches |-> 0,       \* history: getBatchFastUrls calls
          loads   |-> 0]       \* history: initializeResources calls

InitGen ==
    /\ request \in Requests
    /\ db = [clubs |-> {"c1"}, players |-> {"p1", "p2"}]
    /\ gen = [g \in Gens |-> NoGen]

\* The orchestrator before any call, for the specifications of the other
\* components.
InitIdle ==
    /\ request = [clubId |-> "c1", categories |-> <<"GOAT">>,
                  categorizedPlayerIds |-> [GOAT |-> <<>>, MID |-> <<>>]]
    /\ db = [clubs |-> {"c1"}, players |-> {"p1", "p2"}]
    /\ gen = [g \in Gens |-> NoGen]

\* generateResultsImage, 632-652: getClubAndPlayersData is called and issues
\* prisma.club.findUnique.
GenerateResultsImage(g) ==
    /\ gen[g].pc = "idle"
    /\ gen' = [gen EXCEPT ![g].pc = "club", ![g].pass = 1]
    /\ UNCHANGED <<request, db>>
    /\ UNCHANGED <<procVars, dispVars, valVars, wrkVars, resVars, urlVars>>

\* The throw of 293-295, caught and rethrown by 677-685.  As a mutant: the
\* missing club is not checked for.
ClubNotFoundIgnored(r) == [r EXCEPT !.pc = "players"]

ClubNotFound(r) == [r EXCEPT !.pc = "failed", !.error = ErrNotFound]

\* Lines 289-301: findUnique has answered; prisma.players.findMany is
\* issued for a club that was found.
FindClub(g) ==
    /\ gen[g].pc = "club"
    /\ LET r == gen[g]
       IN  IF request.clubId \in db.clubs
             THEN gen' = [gen EXCEPT ![g].pc = "players",
                                     ![g].club = request.clubId]
           ELSE gen' = [gen EXCEPT ![g] = ClubNotFound(
                           [r EXCEPT !.missed = (r.pass = 1) \/ r.missed])]
    /\ UNCHANGED <<request, db>>
    /\ UNCHANGED <<procVars, dispVars, valVars, wrkVars, resVars, urlVars>>

\* Object.values(data.categorizedPlayerIds).flat(), line 300, as a set.
AllPlayerIds ==
    {request.categorizedPlayerIds.GOAT[j] :
        j \in 1..Len(request.categorizedPlayerIds.GOAT)}
    \cup {request.categorizedPlayerIds.MID[j] :
        j \in 1..Len(request.categorizedPlayerIds.MID)}

\* Lines 301-319: findMany has answered; the two getBatchFastUrls calls are
\* made.
FindPlayers(g) ==
    /\ gen[g].pc = "players"
    /\ gen' = [gen EXCEPT ![g].pc = "urls",
                          ![g].players = AllPlayerIds \cap db.players,
                          ![g].lookups = @ + 1]
    /\ UNCHANGED <<request, db>>
    /\ UNCHANGED <<procVars, dispVars, valVars, wrkVars, resVars, urlVars>>

\* club.logo ? [club.logo] : [], and the avatars of the players found
\* (310-313).
LogoKeys(r) ==
    IF r.club \in DOMAIN ClubRows /\ ClubRows[r.club].logo # ""
      THEN {ClubRows[r.club].logo} ELSE {}

AvatarKeys(r) == {PlayerRows[p].avatar : p \in r.players} \ {""}

\* getBatchFastUrls(keys, type): a record with an entry for every key, the
\* display URL of the key, or '' where the storage failed.
BatchFastUrls(keys) == [keys -> {"url", ""}]

\* Lines 316-345: both batches have resolved; the player map is built.
\* generateResultsImage then calls generateHTML (655), which starts with a
\* second getClubAndPlayersData (354); after that one, initializeResources
\* is called (359).
BatchUrls(g) ==
    /\ gen[g].pc = "urls"
    /\ \E logoUrls \in BatchFastUrls(LogoKeys(gen[g])),
          avatarUrls \in BatchFastUrls(AvatarKeys(gen[g])) :
         gen' = [gen EXCEPT
                   ![g].pc = IF gen[g].pass = 1 THEN "club" ELSE "resources",
                   ![g].pass = IF gen[g].pass = 1 THEN 2 ELSE @,
                   ![g].logoUrls = IF gen[g].pass = 1 THEN <<>> ELSE logoUrls,
                   ![g].avatarUrls = IF gen[g].pass = 1 THEN <<>> ELSE avatarUrls,
                   ![g].batches = @ + 2]
    /\ UNCHANGED <<request, db>>
    /\ UNCHANGED <<procVars, dispVars, valVars, wrkVars, resVars, urlVars>>

\* Lines 359-371: initializeResources, generateFontFaces and the two
\* loadImageAsBase64 calls.  The loads they make are the invocations of the
\* Resource Cache above; here the stage is counted.
LoadResources(g) ==
    /\ gen[g].pc = "resources"
    /\ gen' = [gen EXCEPT ![g].pc = "html", ![g].loads = @ + 1]
    /\ UNCHANGED <<request, db>>
    /\ UNCHANGED <<procVars, dispVars, valVars, wrkVars, resVars, urlVars>>

\* The player map of 328-338: avatarUrl is avatarUrls[player.avatar] || ''
\* for a player with an avatar, '' otherwise.
AvatarUrl(r, p) ==
    LET key == PlayerRows[p].avatar
    IN  IF key # "" /\ key \in DOMAIN r.avatarUrls THEN r.avatarUrls[key] ELSE ""

\* What an <img> shows: the resolved URL of a storage key or the SVG of
\* createPlayerAvatarPlaceholder (27-58), which is made from the name.
UrlSrc(key) == [kind |-> "url", of |-> key]
createPlayerAvatarPlaceholder(playerName) == [kind |-> "placeholder", of |-> playerName]

\* player.avatarUrl || createPlayerAvatarPlaceholder(player.name), 404-406.
\* As a mutant: the URL is used as it is.
playerAvatarAsResolved(r, p) ==
    IF AvatarUrl(r, p) # "" THEN UrlSrc(PlayerRows[p].avatar)
    ELSE [kind |-> "url", of |-> ""]

playerAvatar(r, p) ==
    IF AvatarUrl(r, p) # "" THEN UrlSrc(PlayerRows[p].avatar)
    ELSE createPlayerAvatarPlaceholder(PlayerRows[p].name)

\* The callback of playerIds.map, 396-413; NoHTML is the '' of line 401.
NoHTML == [id |-> "", src |-> [kind |-> "", of |-> ""], alt |-> ""]

PlayerHTML(r, playerId) ==
    IF playerId \notin r.players THEN NoHTML
    ELSE [id |-> playerId, src |-> playerAvatar(r, playerId),
          alt |-> PlayerRows[playerId].name]

\* playerIds.map(...).filter((html) => html !== ''), 395-414.  As a mutant:
\* the filter is left out.
playersListHTMLUnfiltered(r, playerIds) ==
    [j \in 1..Len(playerIds) |-> PlayerHTML(r, playerIds[j])]

playersListHTML(r, playerIds) ==
    SelectSeq([j \in 1..Len(playerIds) |-> PlayerHTML(r, playerIds[j])],
              LAMBDA html : html # NoHTML)

\* data.categories.map(...), 389-429: one section for each category, with
\* the '— Пусто' element for a category without ids.  The title is
\* category.name.toUpperCase(); the names of the model are in upper case.
playersHTML(r) ==
    [i \in 1..Len(request.categories) |->
        LET playerIds == request.categorizedPlayerIds[request.categories[i]]
        IN  [title   |-> request.categories[i],
             empty   |-> Len(playerIds) = 0,
             players |-> playersListHTML(r, playerIds)]]

\* clubLogoUrl of line 325 and the club logo element of 606-608 (the name of
\* the club of the model shows the logo).
ClubLogo(r) ==
    IF \E k \in DOMAIN r.logoUrls : r.logoUrls[k] # ""
      THEN UrlSrc(ClubRows[r.club].logo) ELSE [kind |-> "", of |-> ""]

\* The state of a generateImageInWorker call that has just been made.
Spawned == [NoRender EXCEPT !.pc = "called", !.timer = "armed",
                            !.thread = "running", !.wpc = "working"]

\* Lines 373-627 and 655-666: the markup is put together, generateHTML
\* returns and generateImageInWorker is called.
AssembleHTML(g) ==
    /\ gen[g].pc = "html"
    /\ render[g].pc = "idle"
    /\ gen' = [gen EXCEPT ![g].pc = "worker",
                          ![g].html = playersHTML(gen[g]),
                          ![g].logo = ClubLogo(gen[g])]
    /\ render' = [render EXCEPT ![g] = Spawned]
    /\ UNCHANGED <<request, db>>
    /\ UNCHANGED <<procVars, dispVars, valVars, resVars, urlVars>>

\* Lines 660-685: the promise of generateImageInWorker has settled.
WorkerSettled(g) ==
    /\ gen[g].pc = "worker"
    /\ render[g].promise # "pending"
    /\ gen' = [gen EXCEPT ![g] =
          IF render[g].promise = "resolved"
            THEN [@ EXCEPT !.pc = "done", !.ret = "bytes"]
          ELSE [@ EXCEPT !.pc = "failed", !.error = render[g].value]]
    /\ UNCHANGED <<request, db>>
    /\ UNCHANGED <<procVars, dispVars, valVars, wrkVars, resVars, urlVars>>

\* deleteClub of controllers/clubs.controller.ts: prisma.club.delete, at
\* any time at which a call may still look the club up.
DeleteClub ==
    /\ "c1" \in db.clubs
    /\ \E g \in Gens : gen[g].pc \in {"idle", "club"} \/ gen[g].pass = 1
    /\ db' = [db EXCEPT !.clubs = @ \ {"c1"}]
    /\ UNCHANGED <<request, gen>>
    /\ UNCHANGED <<procVars, dispVars, valVars, wrkVars, resVars, urlVars>>

NextRender ==
    \/ \E g \in Gens : GenerateResultsImage(g)
    \/ \E g \in Gens : FindClub(g)
    \/ \E g \in Gens : FindPlayers(g)
    \/ \E g \in Gens : BatchUrls(g)
    \/ \E g \in Gens : LoadResources(g)
    \/ \E g \in Gens : AssembleHTML(g)
    \/ \E g \in Gens : WorkerSettled(g)
    \/ DeleteClub
    \/ \E k \in Renders : WorkerPostsSuccess(k)
    \/ \E k \in Renders : WorkerPostsFailure(k)
    \/ \E k \in Renders : WorkerFinishes(k)
    \/ \E k \in Renders : OnMessage(k)
    \/ \E k \in Renders : OnError(k)
    \/ \E k \in Renders : OnExit(k)
    \/ \E k \in Renders : OnTimeout(k)

(***************************************************************************)
(* One process of the fleet: its TelegramBotService (bot/telegramBot.ts    *)
(* 13-30, 208-210) and its SimpleBotMessagingService with the consumption  *)
(* loop (unnamed/part_005 18-81, 178-215, 352-359), for every value of     *)
(* process.env.pm_id.  Here an lpop command is followed from the tick that *)
(* issues it to the broker executing it, and the list may hold entries     *)
(* that are not the JSON text of a task.                                   *)
(***************************************************************************)
MaxPushes == 2     \* entries pushed onto image_send_queue
MaxWire   == 2     \* lpop commands under way at a time
MaxErrors == 2     \* errors caught by processImageTasks

PmValues == {"0", "1", "unset"}

\* process.env.pm_id === '0' (44, 62, 178).  As a mutant: the test of
\* TelegramBotService.
IsMasterProcessOrUnset(pm) == pm = "unset" \/ pm = "0"

IsMasterProcess(pm) == pm = "0"

\* !process.env.pm_id || process.env.pm_id === '0', telegramBot.ts 15.
isClusterMaster(pm) == pm = "unset" \/ pm = "0"

NoBotService == [made |-> FALSE, isClusterMaster |-> FALSE, bot |-> FALSE]

\* The constructor of TelegramBotService, 13-30 and 35-60: the bot is made
\* in a cluster master, unless new TelegramBot throws (caught at 53).
TelegramBotService(pm, made) ==
    [made |-> TRUE, isClusterMaster |-> isClusterMaster(pm),
     bot |-> isClusterMaster(pm) /\ made]

\* isBotAvailable, 208-210.
isBotAvailable(b) == b.isClusterMaster /\ b.bot

\* timers: the setInterval timers of the service that are alive;
\* taskProcessorInterval: whether the field holds one.
NoService == [instance |-> FALSE, botService |-> FALSE,
              isProcessingTasks |-> FALSE, taskProcessorInterval |-> FALSE,
              timers |-> 0]

\* startTaskProcessor, 43-56.
startTaskProcessor(s, pm) ==
    IF IsMasterProcess(pm) /\ ~s.isProcessingTasks
      THEN [s EXCEPT !.isProcessingTasks = TRUE, !.taskProcessorInterval = TRUE,
                     !.timers = @ + 1]
    ELSE s

\* getInstance and the constructor, 22-31.
getInstance(s, pm) ==
    IF ~s.instance THEN startTaskProcessor([s EXCEPT !.instance = TRUE], pm)
    ELSE s

\* stop, 352-359.
stop(s) ==
    [s EXCEPT !.isProcessingTasks = FALSE,
              !.timers = IF s.taskProcessorInterval THEN @ - 1 ELSE @,
              !.taskProcessorInterval = FALSE]

\* History: pops and handled, the entries the process popped and handed to
\* handleImageTask; errs, the errors caught at line 74 ("lpop": the command
\* failed, "parse": JSON.parse threw); caught, their number; pushes, the
\* entries pushed so far; direct, a sendImage call took the direct path.
NoTrace == [pops |-> <<>>, handled |-> <<>>, errs |-> {}, caught |-> 0,
            pushes |-> 0, direct |-> FALSE, stopped |-> FALSE]

InitProcIdle ==
    /\ pm_id = "0"
    /\ tbot = NoBotService
    /\ sbm = NoService
    /\ list = <<>>
    /\ wire = 0
    /\ trace = NoTrace

InitProc ==
    /\ pm_id \in PmValues
    /\ tbot = NoBotService
    /\ sbm = NoService
    /\ list = <<>>
    /\ wire = 0
    /\ trace = NoTrace

\* new TelegramBotService(), index.ts 95.
NewTelegramBotService ==
    /\ ~tbot.made
    /\ \E made \in BOOLEAN : tbot' = TelegramBotService(pm_id, made)
    /\ UNCHANGED <<pm_id, sbm, list, wire, trace>>
    /\ UNCHANGED <<dispVars, valVars, wrkVars, resVars, urlVars, genVars>>

\* SimpleBotMessagingService.getInstance(), at line 362 and wherever the
\* service is used.
GetInstance ==
    /\ sbm' = getInstance(sbm, pm_id)
    /\ sbm' # sbm \/ sbm.instance
    /\ UNCHANGED <<pm_id, tbot, list, wire, trace>>
    /\ UNCHANGED <<dispVars, valVars, wrkVars, resVars, urlVars, genVars>>

\* setBotService(botService), 36-38.
SetBotServiceOf ==
    /\ sbm.instance /\ tbot.made /\ ~sbm.botService
    /\ sbm' = [sbm EXCEPT !.botService = TRUE]
    /\ UNCHANGED <<pm_id, tbot, list, wire, trace>>
    /\ UNCHANGED <<dispVars, valVars, wrkVars, resVars, urlVars, genVars>>

\* An entry of the list.  History: own, pushed by a sendImage call of this
\* process; era, the errors the loop had caught when it was pushed.
ListEntry(kind, own) == [id |-> trace.pushes + 1, kind |-> kind, own |-> own,
                     era |-> trace.caught]

\* sendImage with a buffer that passes the validation, 178-215: the direct
\* path, or the rpush of the task.
Deliver ==
    /\ sbm.instance
    /\ trace.pushes < MaxPushes
    /\ IF IsMasterProcess(pm_id) /\ sbm.botService /\ isBotAvailable(tbot)
         THEN /\ trace' = [trace EXCEPT !.direct = TRUE]
              /\ UNCHANGED list
       ELSE /\ list' = Append(list, ListEntry("task", TRUE))
            /\ trace' = [trace EXCEPT !.pushes = @ + 1]
    /\ UNCHANGED <<pm_id, tbot, sbm, wire>>
    /\ UNCHANGED <<dispVars, valVars, wrkVars, resVars, urlVars, genVars>>

\* Another client of the broker pushes onto the list: the task of another
\* process, or a string that JSON.parse rejects.
OtherRpush ==
    /\ trace.pushes < MaxPushes
    /\ \E kind \in {"task", "unparsable"} :
         list' = Append(list, ListEntry(kind, FALSE))
    /\ trace' = [trace EXCEPT !.pushes = @ + 1]
    /\ UNCHANGED <<pm_id, tbot, sbm, wire>>
    /\ UNCHANGED <<dispVars, valVars, wrkVars, resVars, urlVars, genVars>>

\* Lines 50-54 and 61-68: a timer of the service fires; the callback and
\* processImageTasks test the flag and pm_id, and lpop is issued.
TimerTick ==
    /\ sbm.timers > 0
    /\ sbm.isProcessingTasks /\ IsMasterProcess(pm_id)
    /\ wire < MaxWire
    /\ wire' = wire + 1
    /\ UNCHANGED <<pm_id, tbot, sbm, list, trace>>
    /\ UNCHANGED <<dispVars, valVars, wrkVars, resVars, urlVars, genVars>>

\* The catch of processImageTasks, 74-80: the error is logged.  As a
\* mutant: the error leaves the callback of the timer and ends the loop.
TickRejects(s) ==
    [s EXCEPT !.isProcessingTasks = FALSE, !.taskProcessorInterval = FALSE,
              !.timers = 0]

TickCatches(s) == s

\* Lines 68-80: the broker executes an lpop of the process and the reply
\* is processed: a task is handed to handleImageTask, an entry that
\* JSON.parse rejects or a failed command ends in the catch, the reply of
\* an empty list is null.
LpopDone ==
    /\ wire > 0
    /\ wire' = wire - 1
    /\ \E ok \in BOOLEAN :
         IF ~ok
           THEN /\ trace.caught < MaxErrors
                /\ sbm' = TickCatches(sbm)
                /\ trace' = [trace EXCEPT !.caught = @ + 1,
                                          !.errs = @ \cup {"lpop"}]
                /\ UNCHANGED list
         ELSE IF list = <<>>
           THEN UNCHANGED <<sbm, list, trace>>
         ELSE IF Head(list).kind = "unparsable"
           THEN /\ trace.caught < MaxErrors
                /\ list' = Tail(list)
                /\ sbm' = TickCatches(sbm)
                /\ trace' = [trace EXCEPT !.pops = Append(@, Head(list)),
                                          !.caught = @ + 1,
                                          !.errs = @ \cup {"parse"}]
         ELSE /\ list' = Tail(list)
              /\ trace' = [trace EXCEPT !.pops = Append(@, Head(list)),
                                        !.handled = Append(@, Head(list))]
              /\ UNCHANGED sbm
    /\ UNCHANGED <<pm_id, tbot>>
    /\ UNCHANGED <<dispVars, valVars, wrkVars, resVars, urlVars, genVars>>

\* stop(), 352-359.
StopLoop ==
    /\ sbm.instance
    /\ ~trace.stopped
    /\ sbm' = stop(sbm)
    /\ trace' = [trace EXCEPT !.stopped = TRUE]
    /\ UNCHANGED <<pm_id, tbot, list, wire>>
    /\ UNCHANGED <<dispVars, valVars, wrkVars, resVars, urlVars, genVars>>

NextLoop ==
    \/ NewTelegramBotService
    \/ GetInstance
    \/ SetBotServiceOf
    \/ Deliver
    \/ OtherRpush
    \/ TimerTick
    \/ LpopDone
    \/ StopLoop

(***************************************************************************)
(* Specifications                                                          *)
(***************************************************************************)
NextDispatcher ==
    \/ \E c \in Calls : SendImage(c)
    \/ \E c \in Calls : SendImageUnvalidated(c)
    \/ \E c \in Calls : DirectSend(c)
    \/ \E c \in Calls : Rpush(c)
    \/ \E c \in Calls : Poll(c)
    \/ \E c \in Calls : Del(c)
    \/ Tick
    \/ LpopReply
    \/ \E t \in Calls : SendSettles(t)
    \/ \E t \in Calls : Setex(t)
    \/ \E t \in Calls : Expire(t)
    \/ SetBotService
    \/ Stop

\* Spec: the dispatcher with interleaved calls
Init ==
    /\ InitDispatcher
    /\ pollLimit = ModelPolls
    /\ vbuf = NullBuf /\ vres = "none"
    /\ InitWorker
    /\ InitResources /\ InitUrl /\ InitProcIdle /\ InitIdle

Spec == Init /\ [][NextDispatcher]_vars

\* SpecPoll: one call, the poll budget of the code, and the fairness of the
\* event loop and the broker client: a command issued is answered, a timer
\* set fires.  The calls before the last have returned from a failed
\* validation.
RejectedCall == [IdleCall EXCEPT !.pc = "done", !.ret = "false", !.pm = "1",
                                 !.why = "rejected", !.buf = Buf(500, JpegHdr)]

InitPoll ==
    /\ call = [c \in Calls |-> IF c = NCalls THEN IdleCall ELSE RejectedCall]
    /\ queue = <<>>
    /\ results = [c \in Calls |-> NoResult]
    /\ botAvailable = FALSE
    /\ isProcessingTasks = TRUE
    /\ taskProcessorInterval = TRUE
    /\ lpopReplies = <<>>
    /\ handler = [c \in Calls |-> NoHandler]
    /\ pushed = <<>>
    /\ popped = <<>>
    /\ sent = <<>>
    /\ reads = [c \in Calls |-> 0]
    /\ pollLimit = PollLimit
    /\ vbuf = NullBuf /\ vres = "none"
    /\ InitWorker
    /\ InitResources /\ InitUrl /\ InitProcIdle /\ InitIdle

Reply(c) == Rpush(c) \/ Poll(c) \/ Del(c)

FairPoll == \A c \in Calls : WF_vars(Reply(c))

SpecPoll == InitPoll /\ [][NextDispatcher]_vars /\ FairPoll

\* SpecValidate
NextValidate == Validate \/ NextInput

InitV ==
    /\ InitValidate
    /\ InitDispatcher
    /\ pollLimit = ModelPolls
    /\ InitWorker
    /\ InitResources /\ InitUrl /\ InitProcIdle /\ InitIdle

SpecValidate == InitV /\ [][NextValidate]_vars

\* SpecWorker
InitW ==
    /\ InitWorker
    /\ InitDispatcher
    /\ pollLimit = ModelPolls
    /\ vbuf = NullBuf /\ vres = "none"
    /\ InitResources /\ InitUrl /\ InitProcIdle /\ InitIdle

SpecWorker == InitW /\ [][NextWorker]_vars

\* SpecHandle: one call and its task, with the fairness the consumption
\* loop rests on: an lpop reply is delivered, botService.sendImage settles,
\* a setex command is answered.
Handling(t) == LpopReply \/ SendSettles(t) \/ Setex(t)

FairHandle == \A t \in Calls : WF_vars(Handling(t))

InitHandle ==
    /\ call = [c \in Calls |-> IF c = NCalls THEN IdleCall ELSE RejectedCall]
    /\ queue = <<>>
    /\ results = [c \in Calls |-> NoResult]
    /\ botAvailable = FALSE
    /\ isProcessingTasks = TRUE
    /\ taskProcessorInterval = TRUE
    /\ lpopReplies = <<>>
    /\ handler = [c \in Calls |-> NoHandler]
    /\ pushed = <<>>
    /\ popped = <<>>
    /\ sent = <<>>
    /\ reads = [c \in Calls |-> 0]
    /\ pollLimit = ModelPolls
    /\ vbuf = NullBuf /\ vres = "none"
    /\ InitWorker
    /\ InitResources /\ InitUrl /\ InitProcIdle /\ InitIdle

SpecHandle == InitHandle /\ [][NextDispatcher]_vars /\ FairHandle

\* SpecResources: the Resource Cache and its loaders
InitOthers ==
    /\ InitDispatcher
    /\ pollLimit = ModelPolls
    /\ vbuf = NullBuf /\ vres = "none"
    /\ InitWorker

InitR == InitOthers /\ InitResources /\ InitUrl /\ InitProcIdle /\ InitIdle

SpecResources == InitR /\ [][NextResources]_vars

\* SpecLoop: one process of the fleet, for every value of pm_id
InitLoop ==
    /\ InitOthers
    /\ InitResources /\ InitUrl /\ InitIdle
    /\ InitProc

SpecLoop == InitLoop /\ [][NextLoop]_vars

\* SpecWarm: the warm-up of the Resource Cache and its cleanup
SpecWarm == InitR /\ [][NextWarm]_vars

\* SpecUrl: the URL Cache of a StorageService instance
SpecUrl == InitR /\ [][NextUrl]_vars

\* SpecRender: generateResultsImage with its worker, and the club deleted
\* at any time
InitRender == InitOthers /\ InitResources /\ InitUrl /\ InitProcIdle /\ InitGen

SpecRender == InitRender /\ [][NextRender]_vars

\* SpecSweep: the sweeps of the two caches.  The caches share nothing but
\* the clock; a behaviour runs the Resource Cache and, from the start or
\* once a sweep of the Resource Cache has removed an entry and kept another,
\* one StorageService.
ResourcesSwept ==
    \E l, m \in Loads :
       /\ load[l].pc = "done" /\ load[m].pc = "done"
       /\ load[l].ret # NoData /\ load[m].ret # NoData
       /\ ~EntryOf(load[l]).present
       /\ EntryOf(load[m]).present

ResourcesUntouched == load = [l \in Loads |-> NoLoad]

UrlUntouched == urlCache = <<>> /\ resolved = <<>>

NextSweep ==
    \/ UrlUntouched /\ \E l \in Loads : LoadFontAsBase64(l)
    \/ UrlUntouched /\ \E l \in Loads : LoadImageAsBase64(l)
    \/ UrlUntouched /\ \E l \in Loads : Access(l)
    \/ UrlUntouched /\ \E l \in Loads : ReadFile(l)
    \/ UrlUntouched /\ CleanExpiredCache
    \/ UrlUntouched /\ AdvanceClock
    \/ (ResourcesUntouched \/ ResourcesSwept) /\ GetOptimizedUrl
    \/ CleanExpiredUrls
    \/ ~UrlUntouched /\ AdvanceUrlClock

SpecSweep == InitR /\ [][NextSweep]_vars

(***************************************************************************)
(* Properties                                                              *)
(***************************************************************************)
Range(q) == {q[j] : j \in 1..Len(q)}
Pos(x, q) == CHOOSE j \in 1..Len(q) : q[j] = x
Before(a, b, q) == a \in Range(q) /\ b \in Range(q) /\ Pos(a, q) < Pos(b, q)
IsPrefix(a, b) == Len(a) <= Len(b) /\ SubSeq(b, 1, Len(a)) = a

Started(c)  == call[c].pc # "idle"
Current(c)  == Started(c) /\ call[c].ver = "cur"
Finished(t) == handler[t].pc \in {"done", "unsaved"}
\* the bytes the consumer decodes for task t
Decoded(t)  == fromBase64(Task(t).imageBuffer)

\* C1 (as claimed): a sendImage call in the process with pm_id '0' that finds
\* the channel unavailable has returned false at once and has issued no
\* broker command: it is never found waiting for rpush, get or del, and its
\* task id is never pushed.
C1_OwnerUnavailableReturnsAtOnce ==
    \A c \in Calls :
        (Current(c) /\ call[c].pm = "0" /\ ~call[c].chan)
            => /\ call[c].pc = "done"
               /\ call[c].ret = "false"
               /\ c \notin Range(pushed)

\* C2: a sendImage call of a process other than pm_id '0' polls its result
\* slot at most PollLimit (450) times; when it returns with no result written
\* for its task it returns false, and the timeout return comes after exactly
\* PollLimit polls; whatever the broker does it returns true or false, never
\* throws, and once on the queue path it always returns.
C2_Safety ==
    /\ pollLimit = PollLimit
    /\ \A c \in Calls :
          /\ call[c].ret \in {"none", "true", "false"}
          /\ call[c].pm # "0" =>
                /\ call[c].pc = "poll" => call[c].i < PollLimit
                /\ call[c].i <= PollLimit
                /\ call[c].why = "timeout" => call[c].i = PollLimit /\ call[c].ret = "false"
                /\ (call[c].pc = "done" /\ handler[c].pc # "done") => call[c].ret = "false"

C2_BoundedPoll ==
    /\ []C2_Safety
    /\ \A c \in Calls :
          (call[c].pm # "0" /\ call[c].pc \in {"rpush", "poll", "del"})
              ~> (call[c].pc = "done")

C2_Witness ==
    \E c \in Calls :
        /\ call[c].pm = "1" /\ call[c].why = "timeout" /\ call[c].i = PollLimit
        /\ handler[c].pc = "none"

\* C3 (as claimed): the consumption loop handles one task at a time: a timer
\* tick pops a task only when no handleImageTask invocation is in progress
\* (awaiting the send or the write of the result).
C3_OneAtATime ==
    [][Tick => \A t \in Calls : handler[t].pc \notin {"send", "setex"}]_vars

\* C4: tasks are popped in the order they were pushed, handleImageTask is
\* entered in that order, and botService.sendImage is invoked in that order:
\* when the send for B has been invoked, every task pushed before B has been
\* popped and handled up to its own send invocation, which came first.
C4_Fifo ==
    /\ IsPrefix(popped, pushed)
    /\ \A a \in Calls, b \in Calls :
          /\ (Before(a, b, pushed) /\ handler[b].pc # "none") => handler[a].pc # "none"
          /\ (Before(a, b, pushed) /\ a \in Range(sent) /\ b \in Range(sent))
                => Before(a, b, sent)

C4_Witness ==
    /\ Len(pushed) >= 2 /\ pushed[1] > pushed[2]
    /\ sent = pushed

\* C5 (as claimed): every task whose handling has ended has had its
\* DeliveryResult stored.
C5_ResultAlwaysStored ==
    \A t \in Calls : Finished(t) => handler[t].pc = "done"

\* C5 (amended): every popped task eventually has the write of its
\* DeliveryResult attempted, whatever the outcome; a write that succeeds
\* stores success and error under the task id with a TTL of 60 s, a write
\* that fails leaves no result; the error is non-empty when the channel was
\* unavailable, the validation failed or the send threw an error with a
\* non-empty message.
C5_Stored ==
    \A t \in Calls :
        /\ results[t].present =>
              /\ handler[t].pc = "done"
              /\ results[t] = ResultOf(handler[t])
              /\ results[t].ttl = ResultTTL
        /\ handler[t].how \in {"unavailable", "invalid", "throw"}
              => handler[t].errorMessage # ""
        /\ handler[t].pc = "unsaved" => ~results[t].present

C5_WriteAttempted ==
    /\ []C5_Stored
    /\ [][\A t \in Calls :
            (handler[t].pc = "setex" /\ handler'[t].pc = "done")
                => results'[t] = ResultOf(handler[t])]_vars
    /\ \A t \in Calls : (t \in Range(popped)) ~> Finished(t)

C5_Witness ==
    \E t \in Calls :
        /\ handler[t].pc = "done" /\ handler[t].how = "throw"
        /\ results[t].present /\ results[t].error = ErrThrown

\* C6: a task whose decoded bytes fail validateImageBuffer never has
\* botService.sendImage invoked for it, and the result its handler writes has
\* success = false and a non-empty error.
C6_InvalidNeverSent ==
    \A t \in Calls :
        (t \in Range(pushed) /\ ~validateImageBuffer(Decoded(t)))
            => /\ t \notin Range(sent)
               /\ handler[t].pc # "send"
               /\ handler[t].pc \in {"setex", "done", "unsaved"}
                     => ~handler[t].success /\ handler[t].errorMessage # ""
               /\ results[t].present
                     => ~results[t].success /\ results[t].error # ""

C6_Witness ==
    \E t \in Calls :
        /\ ~validateImageBuffer(Decoded(t))
        /\ handler[t].how = "invalid" /\ handler[t].pc = "done"
        /\ results[t].present

\* C7: validateImageBuffer returns true exactly for a Buffer of at least
\* 1024 and at most 20 * 1024 * 1024 bytes whose first three bytes are
\* FF D8 FF; lengths 0, 500 and 25 MB are rejected, 2 MB with the JPEG
\* marker is accepted.
C7_Validate ==
    vres # "none" =>
        /\ (vres = "true") <=>
              /\ vbuf.kind = "buffer"
              /\ vbuf.len >= 1024
              /\ vbuf.len <= 20 * 1024 * 1024
              /\ vbuf.hdr = <<255, 216, 255>>
        /\ vbuf.len \in {0, 500, 25 * 1024 * 1024} => vres = "false"
        /\ (vbuf.kind = "buffer" /\ vbuf.len = 2 * 1024 * 1024
              /\ vbuf.hdr = <<255, 216, 255>>) => vres = "true"

C7_Witness ==
    vres = "true" /\ vbuf.len = 2 * 1024 * 1024

\* C8: a result slot is returned by get at most once; after the call has
\* read and deleted it the slot stays empty; once a slot has been read, it
\* is never written again; and a poll that finds the slot empty returns only
\* by the timeout or the catch block, never as a delivery that failed.
C8_Slots ==
    \A c \in Calls :
        /\ reads[c] <= 1
        /\ call[c].why = "result" => ~results[c].present /\ reads[c] = 1

C8_ReadOnce ==
    /\ []C8_Slots
    /\ [][\A c \in Calls :
            /\ (reads[c] >= 1 /\ ~results[c].present) => ~results'[c].present
            /\ (call[c].pc = "poll" /\ ~results[c].present /\ call'[c].pc # "poll")
                  => /\ call'[c].pc = "done"
                     /\ call'[c].why \in {"timeout", "error"}
                     /\ call'[c].why = "timeout" => call[c].i + 1 = pollLimit]_vars

C8_Witness ==
    \E c \in Calls :
        /\ call[c].why = "result" /\ call[c].ret = "true"
        /\ handler[c].pc = "done" /\ ~results[c].present

\* C9 (as claimed): a generateImageInWorker call whose timer is no longer
\* pending (it fired, or a handler cleared it) has settled its promise.
C9_SettledWhenTimerGone ==
    \A k \in Renders :
        (render[k].pc = "called" /\ render[k].timer # "armed")
            => render[k].promise # "pending"

\* C10: the promise resolves only with the bytes of a success message, and
\* only when that message was the first event handled; when the first event
\* is a failure message, an error event, a non-zero exit or the timeout, the
\* promise is rejected with the error of that event; the promise settles at
\* most once and its outcome never changes afterwards.
C10_Outcome ==
    \A k \in Renders :
        /\ render[k].settled <= 1
        /\ render[k].promise = "resolved"
              => render[k].value = "bytes" /\ render[k].first = "success"
        /\ render[k].first = "success" => render[k].promise = "resolved"
        /\ render[k].first \in {"failure", "error", "exit", "timeout"}
              => render[k].promise = "rejected"
        /\ render[k].first = "failure"
              => render[k].value \in {"launch failed", "render failed", "Worker failed"}
        /\ render[k].first = "error"   => render[k].value = "worker error"
        /\ render[k].first = "exit"    => render[k].value = "Worker stopped with exit code"
        /\ render[k].first = "timeout" => render[k].value = "Worker timeout"

C10_SingleOutcome ==
    /\ []C10_Outcome
    /\ [][\A k \in Renders :
            render[k].promise # "pending"
                => /\ render'[k].promise = render[k].promise
                   /\ render'[k].value = render[k].value]_vars

C10_Witness ==
    \E k \in Renders, j \in Renders :
        /\ render[k].promise = "resolved" /\ render[k].thread = "exited"
        /\ render[j].promise = "rejected" /\ render[j].first = "timeout"


(***************************************************************************)
(* Resource Cache and URL Cache                                            *)
(***************************************************************************)
\* C13: of two load calls for the same asset made less than the TTL apart,
\* whatever the interleaving of their asynchronous steps, at most one reads
\* the file.
C13_OneReadPerWindow ==
    \A a, b \in Loads :
        ( /\ a # b
          /\ load[a].fn = load[b].fn /\ load[a].name = load[b].name
          /\ load[a].io /\ load[b].io )
        => \/ load[a].at - load[b].at >= ResourceTTL
           \/ load[b].at - load[a].at >= ResourceTTL

SameResolve(a, b) == a.fileKey = b.fileKey /\ a.options = b.options

\* The getOptimizedUrl calls of the step, if the step made any.
NewCalls == (Len(resolved) + 1)..Len(resolved')

\* C14: a getOptimizedUrl call that follows, within the 23 hours, a call
\* with the same storage key and the same options that computed the URL,
\* returns that URL without computing it again; the record getBatchUrls
\* returns has one entry for each of its keys, the URL of that key, and no
\* more URLs were computed than there are keys.
C14_OneComputation ==
    [][ /\ \A i, j \in 1..Len(resolved') :
             ( /\ i < j
               /\ SameResolve(resolved'[i], resolved'[j])
               /\ resolved'[i].fileKey # <<>>
               /\ resolved'[i].computed /\ ~resolved'[i].stale
               /\ resolved'[j].at < resolved'[i].at + UrlTTL )
             => /\ ~resolved'[j].computed
                /\ resolved'[j].url = resolved'[i].url
        /\ LET n      == Len(resolved') - Len(resolved)
               keys   == {resolved'[j].fileKey : j \in NewCalls}
               result == BatchResult(resolved', Len(resolved), n)
           IN  /\ DOMAIN result = keys
               /\ \A j \in NewCalls :
                     result[resolved'[j].fileKey] =
                        IF resolved'[j].fileKey = <<>> THEN EmptyUrl
                        ELSE PublicUrl(resolved'[j].fileKey, resolved'[j].options)
               /\ Cardinality({j \in NewCalls : resolved'[j].computed})
                     <= Cardinality(keys)
      ]_vars

\* A call has hit the entry that a call 11.5 hours before it cached.
C14_Witness ==
    \E i, j \in 1..Len(resolved) :
       /\ i < j /\ SameResolve(resolved[i], resolved[j])
       /\ resolved[i].computed /\ ~resolved[j].computed
       /\ resolved[j].at > resolved[i].at
       /\ resolved[j].url = PublicUrl(resolved[j].fileKey, resolved[j].options)

\* C16: when deleteFile clears the cache, no entry of the deleted key is
\* left, whatever the options it was cached under, and a getOptimizedUrl call
\* that finds no entry computes the URL.
C16_Invalidate ==
    [][ /\ (deleting.pc = "send" /\ deleting'.ended = "cleared")
             => \A o \in Options :
                   CacheKey(deleting.fileKey, o) \notin DOMAIN urlCache'
        /\ Len(resolved') = Len(resolved) + 1
             => LET e == resolved'[Len(resolved')]
                IN  ( /\ e.fileKey # <<>>
                      /\ CacheKey(e.fileKey, e.options) \notin DOMAIN urlCache )
                    => e.computed
      ]_vars

\* deleteFile has removed the entries two calls with different options had
\* made for its key.
C16_Witness ==
    /\ deleting.ended = "cleared"
    /\ \E i, j \in 1..Len(resolved) :
          /\ resolved[i].fileKey = deleting.fileKey
          /\ resolved[i].fileKey = resolved[j].fileKey
          /\ resolved[i].options # resolved[j].options
          /\ resolved[i].computed /\ resolved[j].computed
          /\ resolved[i].stale /\ resolved[j].stale
          /\ \A o \in Options :
                CacheKey(resolved[i].fileKey, o) \notin DOMAIN urlCache

(***************************************************************************)
(* Isolated Renderer, continued                                            *)
(***************************************************************************)
\* C11: a generateImageInWorker call that has settled has terminated its
\* worker, or the worker has exited; and a step of one call's worker (a
\* message, a crash, an exit, the timeout) changes nothing of another call.
C11_WorkerTornDown ==
    [][ /\ \A k \in Renders :
             render'[k].promise # "pending"
             => render'[k].thread \in {"stopping", "exited"}
        /\ \A k, j \in Renders :
             (k # j /\ render'[k] # render[k]) => render'[j] = render[j]
      ]_vars

\* One call has resolved with the bytes and its worker is stopped, while the
\* worker of another call crashed or hung.
C11_Witness ==
    \E k, j \in Renders :
       /\ k # j
       /\ render[k].promise = "resolved" /\ render[k].thread \in {"stopping", "exited"}
       /\ render[j].promise = "rejected" /\ render[j].first \in {"error", "timeout"}
       /\ render[j].thread \in {"stopping", "exited"}

(***************************************************************************)
(* Render Orchestrator                                                     *)
(***************************************************************************)
Assembled(r) == r.html # <<>>

\* A call fails for a missing club or for what its worker reported, for
\* nothing else.
FailsOnlyFor(g) ==
    gen[g].pc = "failed"
    => \/ gen[g].error = ErrNotFound
       \/ render[g].promise = "rejected" /\ gen[g].error = render[g].value

\* C12: a generateResultsImage call whose club id did not resolve has failed
\* with the error of the missing club and has returned no bytes, without a
\* player lookup, a URL resolution, a resource load or a worker; and
\* whenever a call fails for the missing club, no resource was loaded, no
\* worker started and no bytes returned.
C12_ClubNotFound ==
    \A g \in Gens :
       /\ gen[g].missed
          => /\ gen[g].pc = "failed" /\ gen[g].error = ErrNotFound
             /\ gen[g].lookups = 0 /\ gen[g].batches = 0
       /\ (gen[g].missed \/ gen[g].error = ErrNotFound)
          => /\ gen[g].pc = "failed" /\ gen[g].ret = "none"
             /\ gen[g].loads = 0
             /\ render[g].pc = "idle"
             /\ ~Assembled(gen[g])

C12_Witness ==
    \E g \in Gens :
       /\ request.clubId = "missing"
       /\ gen[g].missed /\ gen[g].pc = "failed" /\ gen[g].error = ErrNotFound

Entry(g, i, j) == gen[g].html[i].players[j]

C17_Order ==
    \A g \in Gens :
       /\ FailsOnlyFor(g)
       /\ Assembled(gen[g])
          => /\ Len(gen[g].html) = Len(request.categories)
             /\ \A i \in 1..Len(gen[g].html) :
                   LET ids == request.categorizedPlayerIds[request.categories[i]]
                       es  == gen[g].html[i].players
                   IN  /\ gen[g].html[i].title = request.categories[i]
                       /\ [j \in 1..Len(es) |-> es[j].id]
                             = SelectSeq(ids, LAMBDA id : id \in gen[g].players)

\* A render of two categories has returned its bytes; one category lists an
\* id without a row between two players.
C17_Witness ==
    \E g \in Gens :
       /\ gen[g].pc = "done"
       /\ Len(request.categories) = 2
       /\ request.categorizedPlayerIds.GOAT = <<"p2", "px", "p1">>
       /\ \E i \in 1..2 :
             /\ gen[g].html[i].title = "GOAT"
             /\ Len(gen[g].html[i].players) = 2
             /\ gen[g].html[i].players[1].id = "p2"
             /\ gen[g].html[i].players[2].id = "p1"

(***************************************************************************)
(* Delivery Dispatcher: what stays in the broker                           *)
(***************************************************************************)
ConsumerRunning == taskProcessorInterval /\ isProcessingTasks

\* C18 (as claimed): a task written to image_send_queue is removed from it
\* whether or not the consumer is still running.  The list is given no
\* expiry and lpop (Tick) is the only command that takes an entry out of
\* it, so a task can leave the broker only while the consumption loop
\* runs: no task is in the list once the loop is stopped.
C18_TaskRemovable == queue # <<>> => ConsumerRunning

SendFailed == {"false", "throw", "throwEmpty"}

\* C19: a sendImage call that has returned true has had botService.sendImage
\* invoked for its image and resolve true: on the direct path the call
\* returns what that send resolved to, on the queue path the success flag
\* that the handler of its own task stored; a call whose send resolved
\* false or threw has not returned true.
C19_TrueOnlyIfSent ==
    \A c \in Calls :
       /\ call[c].ret = "true"
          => \/ call[c].why = "direct" /\ call[c].out = "true"
             \/ /\ call[c].why = "result"
                /\ c \in Range(sent)
                /\ handler[c].pc = "done" /\ handler[c].how = "true"
       /\ call[c].why = "direct"
          => call[c].ret = (IF call[c].out = "true" THEN "true" ELSE "false")
       /\ call[c].why = "result"
          => call[c].ret = (IF handler[c].success THEN "true" ELSE "false")
       /\ (call[c].out \in SendFailed \/ handler[c].how \in SendFailed)
          => call[c].ret # "true"

\* One call has returned true from the result of its task, another has
\* returned false after its direct send threw.
C19_Witness ==
    \E c, d \in Calls :
       /\ call[c].ret = "true" /\ call[c].why = "result" /\ handler[c].how = "true"
       /\ call[d].ret = "false" /\ call[d].why = "direct" /\ call[d].out = "throw"

Abandoned(c) == call[c].why = "timeout"

\* C20: the step in which a sendImage call runs out of polls and returns
\* false leaves its task, the replies under way, the handlers and the
\* results as they were; the call then stays returned and no get of it
\* ever finds a result; and a result stored for its task leaves the broker
\* by expiry, by no other step.
C20_AbandonedNotCancelled ==
    [][\A c \in Calls :
          /\ (~Abandoned(c) /\ call'[c].why = "timeout")
             => /\ call'[c].ret = "false" /\ call'[c].pc = "done"
                /\ UNCHANGED <<queue, lpopReplies, handler, results>>
          /\ Abandoned(c)
             => /\ call'[c] = call[c]
                /\ reads'[c] = 0
                /\ (results[c].present /\ ~results'[c].present) => Expire(c)
      ]_vars

\* A call of a process other than pm_id '0' gave up while its task was
\* still in the list;
\* the task was then popped and sent, and its result is stored with
\* success, read by nobody.
C20_Witness ==
    \E c \in Calls :
       /\ call[c].pm = "1"
       /\ Abandoned(c) /\ call[c].ret = "false" /\ call[c].left
       /\ c \in Range(popped) /\ c \in Range(sent)
       /\ handler[c].pc = "done" /\ handler[c].how = "true"
       /\ results[c].present /\ results[c].success
       /\ reads[c] = 0

(***************************************************************************)
(* Render Orchestrator: the work of one call                               *)
(***************************************************************************)
\* C22 (as claimed): a generateResultsImage call that has returned its
\* bytes has made one player lookup and two getBatchFastUrls calls, one for
\* the logos and one for the avatars (and, with them, one club lookup).
C22_OneLookupEach ==
    \A g \in Gens :
       gen[g].pc = "done" => gen[g].lookups = 1 /\ gen[g].batches = 2

(***************************************************************************)
(* URL Cache: what an invalidation leaves alone                            *)
(***************************************************************************)
\* C28 (as claimed): when deleteFile clears the cache for a storage key,
\* every entry cached for another storage key is left as it was, also where
\* the deleted key is a prefix of that other key.
C28_OtherKeysKept ==
    [][ (deleting.pc = "send" /\ deleting'.ended = "cleared")
          => \A f \in FileKeys, o \in Options :
                (f # deleting.fileKey /\ CacheKey(f, o) \in DOMAIN urlCache)
                => /\ CacheKey(f, o) \in DOMAIN urlCache'
                   /\ urlCache'[CacheKey(f, o)] = urlCache[CacheKey(f, o)]
      ]_vars

(***************************************************************************)
(* Delivery Dispatcher: a task is consumed once                            *)
(***************************************************************************)
Count(x, q) == Cardinality({j \in 1..Len(q) : q[j] = x})

\* C26: a task is pushed once, popped at most once and handed to
\* botService.sendImage at most once, after its pop; once popped it is not
\* in the list again, however the send or the write of the result ended.
C26_PoppedOnceSentOnce ==
    \A c \in Calls :
       /\ Count(c, pushed) <= 1
       /\ Count(c, popped) <= 1
       /\ Count(c, sent) <= 1
       /\ c \in Range(sent) => c \in Range(popped)
       /\ c \in Range(popped) => c \in Range(pushed) /\ ~InQueue(queue, c)

\* The send of a task threw and the write of its result failed; the task
\* was popped once, sent once and is not in the list.
C26_Witness ==
    \E c \in Calls :
       /\ handler[c].pc = "unsaved" /\ handler[c].how = "throw"
       /\ Count(c, popped) = 1 /\ Count(c, sent) = 1
       /\ ~InQueue(queue, c)

(***************************************************************************)
(* Delivery Dispatcher: a buffer that fails the validation                 *)
(***************************************************************************)
\* C29: a sendImage call (of the current version) whose buffer fails
\* validateImageBuffer has returned false by the return of line 175, in
\* the process with pm_id '0' as in any other: botService.sendImage was
\* not invoked for it, no task of it was pushed, popped or handled, and no
\* result of it was stored or read.  The buffers of the calls that fail the
\* validation are those of fewer than 1024 bytes.
C29_RejectedTouchesNothing ==
    \A c \in Calls :
       (Current(c) /\ call[c].buf.len < MinBytes)
       => /\ call[c].pc = "done" /\ call[c].ret = "false"
          /\ call[c].why = "rejected"
          /\ call[c].out = "none"
          /\ c \notin Range(pushed) /\ ~InQueue(queue, c)
          /\ c \notin Range(popped) /\ c \notin Range(sent)
          /\ handler[c].pc = "none"
          /\ ~results[c].present /\ reads[c] = 0

\* A call with a buffer of 500 bytes was rejected in the process with pm_id
\* '0' while the channel was available, another in a process without the
\* channel.
C29_Witness ==
    \E c, d \in Calls :
       /\ call[c].why = "rejected" /\ call[c].pm = "0" /\ botAvailable
       /\ call[d].why = "rejected" /\ call[d].pm = "1"
       /\ call[c].buf.len = 500 /\ call[d].buf.len = 500

(***************************************************************************)
(* Resource Cache: a file that cannot be read                             *)
(***************************************************************************)
EntryIn(rc, fn, name) == IF fn = "font" THEN rc.fonts[name] ELSE rc.images[name]

\* C23: a load whose fs.promises.access or fs.promises.readFile fails
\* returns '' and stores '' under the name with the time of the failure;
\* and a load that finds '' stored under its name less than the TTL ago
\* returns '' at once: it probes nothing, reads nothing and leaves the
\* cache as it is.
C23_NegativeCached ==
    [][\A l \in Loads :
          /\ ( /\ load[l].pc \in {"access", "readFile"}
               /\ load'[l].pc = "done" /\ load'[l].ret = NoData )
             => EntryIn(resourcesCache', load[l].fn, load[l].name)
                   = [present |-> TRUE, data |-> NoData, timestamp |-> now]
          /\ ( /\ load[l].pc = "idle" /\ load'[l].pc # "idle"
               /\ LET e == EntryIn(resourcesCache, load'[l].fn, load'[l].name)
                  IN  e.present /\ e.data = NoData
                      /\ now - e.timestamp < ResourceTTL )
             => /\ load'[l].pc = "done" /\ load'[l].ret = NoData
                /\ ~load'[l].probe /\ ~load'[l].io
                /\ resourcesCache' = resourcesCache
      ]_vars

\* The read of a file failed; half an hour later a second load of the name
\* returned '' without a probe.
C23_Witness ==
    \E l, m \in Loads :
       /\ load[m].pc = "done" /\ load[m].io /\ load[m].ret = NoData
       /\ load[l].pc = "done" /\ load[l].fn = load[m].fn
       /\ load[l].name = load[m].name
       /\ load[l].at = load[m].at + ClockStep
       /\ ~load[l].probe /\ load[l].ret = NoData

(***************************************************************************)
(* Resource Cache and URL Cache: the sweeps                                *)
(***************************************************************************)
NamesOf(fn) == IF fn = "font" THEN Fonts ELSE Images

\* C25: a sweep of the Resource Cache keeps, as it is, every entry whose
\* timestamp is less than the TTL ago and removes every other; a sweep of
\* the URL Cache keeps every entry whose expiresAt is after now and removes
\* every other: the entries a lookup at that instant returns, and no
\* others, are kept.  A load that finds no entry under its name probes the
\* file, and the load that settles stores what it returns with the time of
\* the store; a resolve that finds no entry computes the URL and stores it
\* for 23 hours from then.
C25_SweepMatchesLookup ==
    [][ /\ (resourcesCache' # resourcesCache /\ load' = load)
             => \A fn \in {"font", "image"} : \A n \in NamesOf(fn) :
                   LET e == EntryIn(resourcesCache, fn, n)
                   IN  EntryIn(resourcesCache', fn, n) =
                          IF e.present /\ now - e.timestamp < ResourceTTL
                            THEN e ELSE NoEntry
        /\ (urlCache' # urlCache /\ resolved' = resolved /\ deleting' = deleting)
             => /\ DOMAIN urlCache' =
                      {k \in DOMAIN urlCache : urlCache[k].expiresAt > now}
                /\ \A k \in DOMAIN urlCache' : urlCache'[k] = urlCache[k]
        /\ \A l \in Loads :
              /\ ( /\ load[l].pc = "idle" /\ load'[l].pc # "idle"
                   /\ ~EntryIn(resourcesCache, load'[l].fn, load'[l].name).present )
                 => load'[l].pc = "access" /\ load'[l].probe
              /\ (load[l].pc \in {"access", "readFile"} /\ load'[l].pc = "done")
                 => EntryIn(resourcesCache', load[l].fn, load[l].name)
                       = [present |-> TRUE, data |-> load'[l].ret,
                          timestamp |-> now]
        /\ Len(resolved') = Len(resolved) + 1
             => LET e  == resolved'[Len(resolved')]
                    ck == CacheKey(e.fileKey, e.options)
                IN  (e.fileKey # <<>> /\ ck \notin DOMAIN urlCache)
                    => /\ e.computed
                       /\ ck \in DOMAIN urlCache'
                       /\ urlCache'[ck] = [url |-> e.url,
                                           expiresAt |-> now + UrlTTL]
      ]_vars

\* A sweep of the Resource Cache has removed the entry of one load and kept
\* that of another; a sweep of the URL Cache has removed an entry at the
\* instant it expired and kept one cached 11.5 hours later.
C25_Witness ==
    /\ ResourcesSwept
    /\ \E i, j \in 1..Len(resolved) :
          /\ resolved[i].computed /\ resolved[j].computed
          /\ resolved[i].at + UrlTTL = now
          /\ resolved[j].at = resolved[i].at + UrlStep
          /\ CacheKey(resolved[i].fileKey, resolved[i].options)
                \notin DOMAIN urlCache
          /\ CacheKey(resolved[j].fileKey, resolved[j].options)
                \in DOMAIN urlCache

(***************************************************************************)
(* Resource Cache: the warm-up                                             *)
(***************************************************************************)
Emptied == [fonts  |-> [n \in Fonts |-> NoEntry],
            images |-> [n \in Images |-> NoEntry],
            isInitialized |-> FALSE]

\* C24: an initializeResources call made while the flag is set returns
\* without probing a file and leaves the cache as it is; the flag is set
\* when a warm-up completes and is reset by cleanup() only; cleanup()
\* leaves both maps empty and the flag reset; and a call that finds the
\* cache as cleanup() leaves it probes the four files.
C24_WarmupIdempotent ==
    [][ /\ \A w \in Warms :
              /\ (warm[w].pc \in {"idle", "done"} /\ warm'[w] # warm[w]
                     /\ resourcesCache.isInitialized)
                 => /\ warm'[w].pc = "done" /\ warm'[w].io = 0
                    /\ resourcesCache' = resourcesCache
              /\ (warm[w].pc \in {"idle", "done"} /\ warm'[w].pc = "loading"
                     /\ resourcesCache = Emptied)
                 => warm'[w].io = 4 /\ warm'[w].pending = Assets
              /\ (warm[w].pc = "loading" /\ warm'[w].pc = "done")
                 => resourcesCache'.isInitialized
        /\ (resourcesCache.isInitialized /\ ~resourcesCache'.isInitialized)
             => cleaned'
        /\ (warm' = warm /\ resourcesCache' # resourcesCache)
             => resourcesCache' = Emptied
      ]_vars

\* After a completed warm-up a second one made no probe; cleanup() was
\* then called, and a warm-up made after it has probed the four files and
\* completed.
C24_Witness ==
    /\ cleaned
    /\ \E v, w \in Warms :
          /\ warm[v].pc = "done" /\ ~warm[v].after /\ warm[v].io = 0
          /\ warm[w].pc = "done" /\ warm[w].after /\ warm[w].io = 4
          /\ resourcesCache.isInitialized


\* C27: for every value of pm_id, the unset one included, a process whose
\* TelegramBotService reports the channel available is the process that the
\* Delivery Dispatcher treats as the owner: it runs the consumption loop
\* (until stop() is called), so that a process holding the channel never has
\* its sendImage calls enqueued with no consumer running.
C27_ChannelHolderOwns ==
    (isBotAvailable(tbot) /\ sbm.instance /\ ~trace.stopped)
        => (IsMasterProcess(pm_id) /\ sbm.timers = 1)

\* A process that holds the channel has a task of its own on the list and
\* no timer (reached for pm_id unset).
HolderEnqueued ==
    /\ isBotAvailable(tbot) /\ sbm.botService /\ ~trace.stopped
    /\ sbm.timers = 0
    /\ \E i \in 1..Len(list) : list[i].own


\* C21 (as stated): the consumption loop runs only in the owner process
\* (pm_id '0'): no other process has a timer, issues an lpop or pops an
\* entry; a process has at most one timer however often getInstance is
\* called; and after stop() no further entry is popped by the process.
C21_NoPopAfterStop ==
    [][/\ pm_id # "0"
           => (sbm'.timers = 0 /\ wire' = 0 /\ trace'.pops = <<>>)
       /\ sbm'.timers <= 1
       /\ trace.stopped => trace'.pops = trace.pops]_vars

\* C21 (amended): as above, but after stop() no further lpop is issued and
\* no timer is alive; an lpop that was under way when stop() was called may
\* still pop one entry, which is then processed.
C21_NoLpopIssuedAfterStop ==
    [][/\ pm_id # "0"
           => (sbm'.timers = 0 /\ wire' = 0 /\ trace'.pops = <<>>)
       /\ sbm'.timers <= 1
       /\ trace.stopped => (wire' <= wire /\ sbm'.timers = 0)
       /\ trace.stopped
           => Len(trace'.pops) - Len(trace.pops) <= wire - wire']_vars

\* The owner was stopped with its timer alive, after getInstance was called
\* and entries were popped, while an entry stays on the list.
C21_Witness ==
    /\ IsMasterProcess(pm_id) /\ trace.stopped
    /\ trace.pops # <<>> /\ list # <<>>
    /\ wire = 0 /\ sbm.timers = 0

\* C30: an entry that JSON.parse rejects, or an lpop that fails, in one tick
\* does not stop the consumption loop: the step that catches the error
\* leaves the service as it was, with its timer alive and the flag set unless
\* stop() was called, the rejected entry is off the list, and later ticks
\* process the tasks behind it.
C30_ErrorKeepsLoop ==
    [][trace'.caught > trace.caught
          => /\ sbm' = sbm
             /\ ~trace.stopped
                  => (sbm'.timers = 1 /\ sbm'.isProcessingTasks)
             /\ \A i \in 1..Len(list') : list'[i].id \notin
                    {trace'.pops[j].id : j \in 1..Len(trace'.pops)}]_vars

\* Both kinds of error were caught, and a task pushed after them was
\* handled.
C30_Witness ==
    /\ trace.errs = {"lpop", "parse"}
    /\ \E i \in 1..Len(trace.handled) : trace.handled[i].era = MaxErrors

====
